---- MODULE Spec2Model ----
(***************************************************************************)
(* A model of the hourglass chess engine: the board (lib.rs), the piece    *)
(* and castling-right encodings (pieces.rs), legal move generation         *)
(* (gen_moves.rs), attack maps (gen_attacks.rs), move application          *)
(* (Board::try_move in lib.rs), the FEN codec (fen.rs), the search (ai.rs) *)
(* and the string form of a move (Move::new in lib.rs).                    *)
(***************************************************************************)
EXTENDS Integers, Sequences, FiniteSets, TLC

VARIABLES
    board,              \* the Board value the caller owns (lib.rs, struct Board)
    moves,              \* the caller's last generate_moves() of `board`
    pre,                \* the Board as it was before the last call
    call,               \* the last call: operation, argument, result
    script,             \* the opening moves the caller has still to play
    ply,                \* try_move calls made since the end of the opening
    fen,                \* the FEN text of the last load_fen call
    debug_assertions,   \* cfg!(debug_assertions) of the build
    played              \* try_move calls that returned Ok since Board::new()

vars == <<board, moves, pre, call, script, ply, fen, debug_assertions, played>>

----------------------------------------------------------------------------
(* pieces.rs: the bitflags of Piece.                                       *)

King == 1
Pawn == 2
Knight == 3
Bishop == 4
Rook == 5
Queen == 6
White == 8
Black == 16

EmptyPiece == 0

\* Option::None of en_passant and of Move::promote.
None == -1

Squares == 0 .. 63

\* piece & Piece::PieceType  (mask 0b111)
PieceType(piece) == piece % 8

\* piece & Piece::PlayerType (mask 0b11000)
PlayerType(piece) == ((piece \div 8) % 4) * 8

Player == {"White", "Black"}

to_piece_color(player) == IF player = "White" THEN White ELSE Black

\* impl Not for Player
Not(player) == IF player = "White" THEN "Black" ELSE "White"

\* *self & p.to_piece_color() != Piece::empty()
is_color(piece, player) == (piece \div to_piece_color(player)) % 2 = 1

is_sliding(piece) == PieceType(piece) \in {Queen, Rook, Bishop}

\* Player::forward_value
forward_value(player) == IF player = "White" THEN 1 ELSE -1

(* pieces.rs: CastleRights, a set of four flags.                           *)
AllRights == {"WhiteKingSide", "WhiteQueenSide", "BlackKingSide", "BlackQueenSide"}

has_right(rights, rhs) == rights \cap rhs # {}

\* "*self = !rhs" in place of "*self &= !rhs".
revoke_assign(rights, rhs) == AllRights \ rhs

revoke(rights, rhs) == rights \ rhs

\* The rights revoke_all names for a player.
RightsOf(player) ==
    IF player = "White" THEN {"WhiteKingSide", "WhiteQueenSide"}
    ELSE {"BlackKingSide", "BlackQueenSide"}

\* A revoke_all that takes the rights of both players.
revoke_all_players(rights, player) == revoke(rights, AllRights)

revoke_all(rights, player) == revoke(rights, RightsOf(player))

----------------------------------------------------------------------------
(* lib.rs: directions and the distance table.                              *)

North == 0
South == 1
West == 2
East == 3
NorthWest == 4
SouthEast == 5
NorthEast == 6
SouthWest == 7

DirectionALL == <<North, South, West, East, NorthWest, SouthEast, NorthEast, SouthWest>>
DirectionROOK == <<North, South, West, East>>
DirectionBISHOP == <<NorthWest, SouthEast, NorthEast, SouthWest>>

offset(dir) ==
    CASE dir = North -> 8
      [] dir = South -> -8
      [] dir = West -> -1
      [] dir = East -> 1
      [] dir = NorthWest -> 7
      [] dir = SouthEast -> -7
      [] dir = NorthEast -> 9
      [] dir = SouthWest -> -9

\* A minimum that is always its first argument.
MinFirst(a, b) == a

Min(a, b) == IF a < b THEN a ELSE b

Abs(x) == IF x < 0 THEN -x ELSE x

\* lazy_static NUM_SQUARES_TO_EDGE: one row of 8 distances per square.
NUM_SQUARES_TO_EDGE ==
    [idx \in Squares |->
        LET rank == idx \div 8
            file == idx % 8
            n_north == 7 - rank
            n_south == rank
            n_west == file
            n_east == 7 - file
        IN  <<n_north, n_south, n_west, n_east,
              Min(n_north, n_west), Min(n_south, n_east),
              Min(n_north, n_east), Min(n_south, n_west)>>]

squares_to_edge(start, dir) == NUM_SQUARES_TO_EDGE[start][dir + 1]

\* Player::forward_dir
forward_dir(player) == IF player = "White" THEN North ELSE South

----------------------------------------------------------------------------
(* lib.rs: Move and Board.                                                 *)

Move(from, to, promote) == [from |-> from, to |-> to, promote |-> promote]

from_idxs(from, to) == Move(from, to, None)

with_promote(umove, promote) == [umove EXCEPT !.promote = promote]

\* The marker a generation routine leaves in its output when it panics.
PanicMove == Move(None, None, None)

Panicked(ms) == \E i \in 1 .. Len(ms) : ms[i] = PanicMove

piece_at(b, idx) == b.squares[idx]

\* Board::empty()
EmptyBoard ==
    [squares |-> [s \in Squares |-> EmptyPiece],
     castle_rights |-> {},
     active_color |-> "White",
     en_passant |-> None,
     halfmove |-> 0,
     fullmove |-> 1]

BackRank == <<Rook, Knight, Bishop, Queen, King, Bishop, Knight, Rook>>

\* Board::new(): "rnbqkbnr/pppppppp/8/8/8/8/PPPPPPPP/RNBQKBNR w KQkq - 0 1"
NewBoard ==
    [EmptyBoard EXCEPT
        !.squares = [s \in Squares |->
            CASE s \div 8 = 0 -> White + BackRank[(s % 8) + 1]
              [] s \div 8 = 1 -> White + Pawn
              [] s \div 8 = 6 -> Black + Pawn
              [] s \div 8 = 7 -> Black + BackRank[(s % 8) + 1]
              [] OTHER -> EmptyPiece],
        !.castle_rights = AllRights]

\* get_rook_castle_pos(player, is_east) -> (rook_from, rook_to)
get_rook_castle_pos(player, is_east) ==
    CASE player = "White" /\ ~is_east -> <<0, 3>>
      [] player = "White" /\ is_east -> <<7, 5>>
      [] player = "Black" /\ ~is_east -> <<56, 59>>
      [] player = "Black" /\ is_east -> <<63, 61>>

----------------------------------------------------------------------------
(* gen_attacks.rs: the squares a player attacks, as the set of the indices *)
(* whose entry of the [bool; 64] map is true.                              *)

RECURSIVE get_attacked_ray(_, _, _, _, _)
\* The inner loop of get_attacked_sliding, from step n of one direction.
get_attacked_ray(b, player, start, dir, n) ==
    IF n >= squares_to_edge(start, dir) THEN {}
    ELSE LET target == start + offset(dir) * (n + 1)
             target_piece == b.squares[target]
         IN  IF is_color(target_piece, player) THEN {}
             ELSE IF is_color(target_piece, Not(player)) THEN {target}
             ELSE {target} \cup get_attacked_ray(b, player, start, dir, n + 1)

SlidingDirections(piece) ==
    CASE PieceType(piece) = Bishop -> DirectionBISHOP
      [] PieceType(piece) = Rook -> DirectionROOK
      [] PieceType(piece) = Queen -> DirectionALL

get_attacked_sliding(b, player, start, piece) ==
    LET directions == SlidingDirections(piece)
    IN  UNION {get_attacked_ray(b, player, start, directions[i], 0) :
                  i \in 1 .. Len(directions)}

\* (dx, dy) pairs
\* Only the knight jumps that go two files sideways.
KNIGHT_MOVES_WIDE ==
    << <<-2, 1>>, <<2, 1>>, <<2, -1>>, <<-2, -1>> >>

KNIGHT_MOVES ==
    << <<-2, 1>>, <<-1, 2>>, <<1, 2>>, <<2, 1>>,
       <<2, -1>>, <<1, -2>>, <<-1, -2>>, <<-2, -1>> >>

\* The bounds test shared by the knight routines: both components stay on
\* the board.
KnightInBounds(start, dx, dy) ==
    LET x_dir == IF dx > 0 THEN East ELSE West
        y_dir == IF dy > 0 THEN North ELSE South
    IN  /\ squares_to_edge(start, x_dir) >= Abs(dx)
        /\ squares_to_edge(start, y_dir) >= Abs(dy)

get_attacked_knight(b, player, start) ==
    {start + (KNIGHT_MOVES[i][2] * 8) + KNIGHT_MOVES[i][1] :
        i \in {j \in 1 .. Len(KNIGHT_MOVES) :
                  /\ KnightInBounds(start, KNIGHT_MOVES[j][1], KNIGHT_MOVES[j][2])
                  /\ ~is_color(b.squares[start + (KNIGHT_MOVES[j][2] * 8)
                                                + KNIGHT_MOVES[j][1]], player)}}

get_attacked_pawn(b, player, start) ==
    IF squares_to_edge(start, forward_dir(player)) < 1 THEN {}
    ELSE LET forward_target == start + forward_value(player) * 8
         IN  (IF /\ squares_to_edge(start, West) >= 1
                 /\ ~is_color(b.squares[forward_target - 1], player)
              THEN {forward_target - 1} ELSE {})
             \cup
             (IF /\ squares_to_edge(start, East) >= 1
                 /\ ~is_color(b.squares[forward_target + 1], player)
              THEN {forward_target + 1} ELSE {})

get_attacked_king(b, player, start) ==
    {start + offset(DirectionALL[i]) :
        i \in {j \in 1 .. Len(DirectionALL) :
                  /\ squares_to_edge(start, DirectionALL[j]) >= 1
                  /\ ~is_color(b.squares[start + offset(DirectionALL[j])], player)}}

get_attacked_squares_for(b, player, idx) ==
    LET piece == b.squares[idx]
        piece_type == PieceType(piece)
    IN  IF is_sliding(piece) THEN get_attacked_sliding(b, player, idx, piece)
        ELSE IF piece_type = Knight THEN get_attacked_knight(b, player, idx)
        ELSE IF piece_type = Pawn THEN get_attacked_pawn(b, player, idx)
        ELSE IF piece_type = King THEN get_attacked_king(b, player, idx)
        ELSE {}

generate_attacks(b, player) ==
    UNION {get_attacked_squares_for(b, player, idx) :
              idx \in {s \in Squares : is_color(b.squares[s], player)}}

----------------------------------------------------------------------------
(* lib.rs: the statements of Board::try_move that change the board.        *)

\* A removal that takes the square ahead of the target instead of behind it.
handle_en_passant_ahead(b, umove) ==
    IF b.en_passant = umove.to
    THEN [b EXCEPT !.squares[umove.to + forward_value(b.active_color) * 8] = EmptyPiece]
    ELSE b

\* "handle en_passant": a move onto the en-passant square takes the pawn
\* that double pushed.
handle_en_passant(b, umove) ==
    IF b.en_passant = umove.to
    THEN [b EXCEPT !.squares[umove.to - forward_value(b.active_color) * 8] = EmptyPiece]
    ELSE b

\* A bookkeeping step that leaves the old square when no pawn double pushed.
record_en_passant_keep(b, umove) ==
    IF /\ PieceType(piece_at(b, umove.from)) = Pawn
       /\ Abs(umove.from - umove.to) = 16
    THEN [b EXCEPT !.en_passant = umove.to - forward_value(b.active_color) * 8]
    ELSE b

\* A bookkeeping step that records the square the pawn landed on.
record_en_passant_landing(b, umove) ==
    IF /\ PieceType(piece_at(b, umove.from)) = Pawn
       /\ Abs(umove.from - umove.to) = 16
    THEN [b EXCEPT !.en_passant = umove.to]
    ELSE [b EXCEPT !.en_passant = None]

\* "record en passant"
record_en_passant(b, umove) ==
    IF /\ PieceType(piece_at(b, umove.from)) = Pawn
       /\ Abs(umove.from - umove.to) = 16
    THEN [b EXCEPT !.en_passant = umove.to - forward_value(b.active_color) * 8]
    ELSE [b EXCEPT !.en_passant = None]

\* "this move is a castle; move the rook"
castle_rook(b, umove) ==
    LET is_king == PieceType(b.squares[umove.from]) = King
        move_dist == umove.to - umove.from
        rook == get_rook_castle_pos(b.active_color, move_dist > 0)
    IN  IF is_king /\ Abs(move_dist) = 2
        THEN [b EXCEPT !.squares = [b.squares EXCEPT ![rook[2]] = b.squares[rook[1]],
                                                     ![rook[1]] = EmptyPiece],
                       !.castle_rights = revoke_all(b.castle_rights, b.active_color)]
        ELSE b

\* A relocation that also counts the move in the halfmove clock.
move_piece_counted(b, umove) ==
    [b EXCEPT !.squares = [b.squares EXCEPT ![umove.to] = b.squares[umove.from],
                                            ![umove.from] = EmptyPiece],
              !.active_color = Not(b.active_color),
              !.halfmove = b.halfmove + 1]

\* A relocation that leaves the turn with the mover.
move_piece_same_side(b, umove) ==
    [b EXCEPT !.squares = [b.squares EXCEPT ![umove.to] = b.squares[umove.from],
                                            ![umove.from] = EmptyPiece]]

\* "move the piece", then self.active_color = !self.active_color
move_piece(b, umove) ==
    [b EXCEPT !.squares = [b.squares EXCEPT ![umove.to] = b.squares[umove.from],
                                            ![umove.from] = EmptyPiece],
              !.active_color = Not(b.active_color)]

----------------------------------------------------------------------------
(* Board::find_king and Board::unchecked_make_move: called by add_move.    *)
(* lib.rs does not define them; they follow the design description of     *)
(* move application (section 4.3, step 3, and the ordering hazard of 7).  *)

\* The square of player's king; None when there is none (the caller's
\* indexing with it is then a panic).
find_king(b, player) ==
    LET kings == {s \in Squares : b.squares[s] = to_piece_color(player) + King}
    IN  IF kings = {} THEN None ELSE CHOOSE s \in kings : TRUE

KingHome(player) == IF player = "White" THEN 4 ELSE 60

\* The right lost when a rook of `player` leaves, or is captured on, `idx`.
RookHomeRight(player, idx) ==
    CASE player = "White" /\ idx = 0 -> {"WhiteQueenSide"}
      [] player = "White" /\ idx = 7 -> {"WhiteKingSide"}
      [] player = "Black" /\ idx = 56 -> {"BlackQueenSide"}
      [] player = "Black" /\ idx = 63 -> {"BlackKingSide"}
      [] OTHER -> {}

\* "relocate the corresponding rook to its post-castle square and vacate
\* its origin"
relocate_castle_rook(b, umove) ==
    LET is_king == PieceType(b.squares[umove.from]) = King
        move_dist == umove.to - umove.from
        rook == get_rook_castle_pos(b.active_color, move_dist > 0)
    IN  IF is_king /\ Abs(move_dist) = 2
        THEN [b EXCEPT !.squares = [b.squares EXCEPT ![rook[2]] = b.squares[rook[1]],
                                                     ![rook[1]] = EmptyPiece]]
        ELSE b

\* "Revoke castling rights": both rights of a colour when its king moves or
\* is captured on its home square, the right of a wing when its rook moves
\* from or is captured on its home square.
revoke_castle_rights(b, umove) ==
    LET mover == b.active_color
        piece == b.squares[umove.from]
        captured == b.squares[umove.to]
        lost == (IF PieceType(piece) = King THEN RightsOf(mover) ELSE {})
                \cup (IF /\ captured = to_piece_color(Not(mover)) + King
                         /\ umove.to = KingHome(Not(mover))
                      THEN RightsOf(Not(mover)) ELSE {})
                \cup (IF piece = to_piece_color(mover) + Rook
                      THEN RookHomeRight(mover, umove.from) ELSE {})
                \cup (IF captured = to_piece_color(Not(mover)) + Rook
                      THEN RookHomeRight(Not(mover), umove.to) ELSE {})
    IN  [b EXCEPT !.castle_rights = revoke(@, lost)]

\* The promotion requirement, then the relocation and the flip. The fields
\* written before the requirement fails stay written.
promote_or_relocate(b, umove) ==
    LET piece == b.squares[umove.from]
        promotes == PieceType(piece) = Pawn /\ umove.to \div 8 \in {0, 7}
    IN  IF promotes /\ umove.promote = None
        THEN [result |-> "NoPromotion", board |-> b]
        ELSE [result |-> "Ok",
              board |-> [b EXCEPT
                  !.squares = [b.squares EXCEPT
                      ![umove.to] = IF promotes
                                    THEN to_piece_color(b.active_color) + umove.promote
                                    ELSE piece,
                      ![umove.from] = EmptyPiece],
                  !.active_color = Not(b.active_color)]]

\* Applies umove without asking whether it is legal: en-passant removal,
\* en-passant bookkeeping, castle rook relocation, castling-right
\* revocation, then the promotion requirement, the relocation and the flip.
unchecked_make_move(b, umove) ==
    promote_or_relocate(
        revoke_castle_rights(
            relocate_castle_rook(
                record_en_passant(
                    handle_en_passant(b, umove), umove), umove), umove), umove)

----------------------------------------------------------------------------
(* gen_moves.rs: legal move generation, in generation order.               *)

RECURSIVE Flatten(_)
\* The Vec<Move> after the pushes of the listed steps, in order.
Flatten(ss) == IF ss = <<>> THEN <<>> ELSE Head(ss) \o Flatten(Tail(ss))

\* add_move without the king-safety filter.
add_move_unfiltered(b, umove) == <<umove>>

\* The test of add_move on the board after the move: indexing the attack
\* map with a king that is not there is a panic.
push_unless_attacked(new_board, umove) ==
    LET king == find_king(new_board, Not(new_board.active_color))
    IN  IF king = None THEN <<PanicMove>>
        ELSE IF king \in generate_attacks(new_board, new_board.active_color)
        THEN <<>>
        ELSE <<umove>>

\* .unwrap() of the Result of unchecked_make_move, then the test.
unwrap_and_test(made, umove) ==
    IF made.result # "Ok" THEN <<PanicMove>>
    ELSE push_unless_attacked(made.board, umove)

\* add_move: pushes umove unless it leaves the mover's king attacked.
add_move(b, umove) == unwrap_and_test(unchecked_make_move(b, umove), umove)

\* A ray that leaves out the friendly squares but is stopped by nothing.
generate_sliding_ray_through(b, start, dir, n) ==
    Flatten([k \in 1 .. squares_to_edge(start, dir) - n |->
        IF is_color(b.squares[start + offset(dir) * (n + k)], b.active_color)
        THEN <<>>
        ELSE add_move(b, from_idxs(start, start + offset(dir) * (n + k)))])

RECURSIVE generate_sliding_ray(_, _, _, _)
\* The inner loop of generate_sliding_moves, from step n of one direction.
generate_sliding_ray(b, start, dir, n) ==
    IF n >= squares_to_edge(start, dir) THEN <<>>
    ELSE LET target == start + offset(dir) * (n + 1)
             target_piece == b.squares[target]
         IN  IF is_color(target_piece, b.active_color) THEN <<>>
             ELSE add_move(b, from_idxs(start, target)) \o
                  (IF is_color(target_piece, Not(b.active_color)) THEN <<>>
                   ELSE generate_sliding_ray(b, start, dir, n + 1))

generate_sliding_moves(b, start, piece) ==
    LET directions == SlidingDirections(piece)
    IN  Flatten([i \in 1 .. Len(directions) |->
                    generate_sliding_ray(b, start, directions[i], 0)])

generate_knight_moves(b, start) ==
    Flatten([i \in 1 .. Len(KNIGHT_MOVES) |->
        LET dx == KNIGHT_MOVES[i][1]
            dy == KNIGHT_MOVES[i][2]
            target == start + (dy * 8) + dx
        IN  IF /\ KnightInBounds(start, dx, dy)
               /\ ~is_color(piece_at(b, target), b.active_color)
            THEN add_move(b, from_idxs(start, target))
            ELSE <<>>])

\* A promotion list without the knight.
PromotePiecesThree == <<Bishop, Rook, Queen>>

PromotePieces == <<Knight, Bishop, Rook, Queen>>

add_pawn_move(b, umove) ==
    LET target_rank == umove.to \div 8
        variants == IF target_rank = 0 \/ target_rank = 7
                    THEN [i \in 1 .. Len(PromotePieces) |->
                             with_promote(umove, PromotePieces[i])]
                    ELSE <<umove>>
    IN  Flatten([i \in 1 .. Len(variants) |-> add_move(b, variants[i])])

\* The targets generate_pawn_moves hands to add_pawn_move, in the order of
\* its statements: the two diagonals, the push, the double push.
generate_pawn_moves(b, start) ==
    IF squares_to_edge(start, forward_dir(b.active_color)) < 1 THEN <<>>
    ELSE
    LET forward_target == start + forward_value(b.active_color) * 8
        diagonal(target) ==
            IF \/ is_color(piece_at(b, target), Not(b.active_color))
               \/ b.en_passant = target
            THEN <<target>>
            ELSE <<>>
        west == IF squares_to_edge(start, West) >= 1
                THEN diagonal(forward_target - 1) ELSE <<>>
        east == IF squares_to_edge(start, East) >= 1
                THEN diagonal(forward_target + 1) ELSE <<>>
        double == start + forward_value(b.active_color) * 16
        forward ==
            IF b.squares[forward_target] # EmptyPiece THEN <<>>
            ELSE <<forward_target>> \o
                 (IF /\ \/ b.active_color = "White" /\ start \div 8 = 1
                        \/ b.active_color = "Black" /\ start \div 8 = 6
                     /\ piece_at(b, double) = EmptyPiece
                  THEN <<double>>
                  ELSE <<>>)
        targets == west \o east \o forward
    IN  Flatten([i \in 1 .. Len(targets) |->
                    add_pawn_move(b, from_idxs(start, targets[i]))])

\* The (right, squares_in_between, king_move_range) of the match.
\* A king_move_range of the landing square alone.
CastleSpecLandingOnly(player, dir) ==
    CASE player = "White" /\ dir = West -> <<"WhiteQueenSide", <<-3, -2, -1>>, <<-2>> >>
      [] player = "White" /\ dir = East -> <<"WhiteKingSide", <<1, 2>>, <<2>> >>
      [] player = "Black" /\ dir = West -> <<"BlackQueenSide", <<-3, -2, -1>>, <<-2>> >>
      [] player = "Black" /\ dir = East -> <<"BlackKingSide", <<1, 2>>, <<2>> >>

CastleSpec(player, dir) ==
    CASE player = "White" /\ dir = West -> <<"WhiteQueenSide", <<-3, -2, -1>>, <<-2, -1>> >>
      [] player = "White" /\ dir = East -> <<"WhiteKingSide", <<1, 2>>, <<1, 2>> >>
      [] player = "Black" /\ dir = West -> <<"BlackQueenSide", <<-3, -2, -1>>, <<-2, -1>> >>
      [] player = "Black" /\ dir = East -> <<"BlackKingSide", <<1, 2>>, <<1, 2>> >>

\* The rook square the debug assertion reads for a right.
AssertedRookSquare(right) ==
    CASE right = "WhiteKingSide" -> 7
      [] right = "WhiteQueenSide" -> 0
      [] right = "BlackKingSide" -> 56
      [] right = "BlackQueenSide" -> 63

\* The debug-mode assertions of generate_king_castle_directions hold.
CastleAssertionsHold(b, start, right) ==
    /\ start = KingHome(b.active_color)
    /\ b.squares[AssertedRookSquare(right)] = to_piece_color(b.active_color) + Rook

RECURSIVE ScanOffsets(_, _, _, _)
\* A `for i in range` loop over start + i that returns early: "return" when
\* the square at an offset is in `stop`, "panic" when the index is outside
\* the array, "pass" when the loop runs to its end.
ScanOffsets(start, range, stop, k) ==
    IF k > Len(range) THEN "pass"
    ELSE LET idx == start + range[k]
         IN  IF idx \notin Squares THEN "panic"
             ELSE IF idx \in stop THEN "return"
             ELSE ScanOffsets(start, range, stop, k + 1)

\* What follows a scanning loop: the panic of an index outside the array,
\* the early return, or the statements after the loop.
AfterLoop(scan, rest) ==
    IF scan = "panic" THEN <<PanicMove>>
    ELSE IF scan = "return" THEN <<>>
    ELSE rest

generate_king_castle_directions(b, start, dir) ==
    LET cs == CastleSpec(b.active_color, dir)
        needed_castle_right == cs[1]
        squares_in_between == cs[2]
        king_move_range == cs[3]
        attacked_squares == generate_attacks(b, Not(b.active_color))
        occupied == {s \in Squares : b.squares[s] # EmptyPiece}
        target == start + offset(dir) * 2
    IN  IF ~has_right(b.castle_rights, {needed_castle_right}) THEN <<>>
        ELSE IF debug_assertions /\ ~CastleAssertionsHold(b, start, needed_castle_right)
        THEN <<PanicMove>>
        ELSE AfterLoop(ScanOffsets(start, king_move_range, attacked_squares, 1),
             AfterLoop(ScanOffsets(start, squares_in_between, occupied, 1),
                 IF target \notin Squares THEN <<PanicMove>>
                 ELSE IF piece_at(b, target) # EmptyPiece THEN <<>>
                 ELSE add_move(b, from_idxs(start, target))))

CastleDirections == <<West, East>>

generate_king_moves(b, start) ==
    Flatten([i \in 1 .. Len(DirectionALL) |->
        LET dir == DirectionALL[i]
            target == start + offset(dir)
        IN  IF /\ squares_to_edge(start, dir) >= 1
               /\ ~is_color(piece_at(b, target), b.active_color)
            THEN add_move(b, from_idxs(start, target))
            ELSE <<>>])
    \o Flatten([i \in 1 .. Len(CastleDirections) |->
                   generate_king_castle_directions(b, start, CastleDirections[i])])

get_moves_for(b, idx) ==
    LET piece == piece_at(b, idx)
        piece_type == PieceType(piece)
    IN  IF ~is_color(piece, b.active_color) THEN <<>>
        ELSE IF is_sliding(piece) THEN generate_sliding_moves(b, idx, piece)
        ELSE IF piece_type = Knight THEN generate_knight_moves(b, idx)
        ELSE IF piece_type = Pawn THEN generate_pawn_moves(b, idx)
        ELSE IF piece_type = King THEN generate_king_moves(b, idx)
        ELSE <<>>

generate_moves(b) ==
    Flatten([idx \in 1 .. 64 |->
        IF is_color(b.squares[idx - 1], b.active_color)
        THEN get_moves_for(b, idx - 1)
        ELSE <<>>])

----------------------------------------------------------------------------
(* lib.rs: Board::try_move, statement by statement. Its lookup of the     *)
(* moves of the origin, self.get_moves_for, is the generator of            *)
(* gen_moves.rs above; lib.rs keeps an earlier copy of that generator      *)
(* (no king-safety filter, no promotion variants) under the same names.    *)

\* An ownership test that only asks for a piece on the origin.
owns_any_piece(b, umove) == b.squares[umove.from] # EmptyPiece

\* self.squares[*umove.from] & self.active_color.to_piece_color() != empty
owns_piece(b, umove) == is_color(b.squares[umove.from], b.active_color)

\* A membership test that skips the promotion variants.
is_listed_plain(found, umove) ==
    \E i \in 1 .. Len(found) : found[i].to = umove.to /\ found[i].promote = None

\* moves.iter().any(|m| m.to == umove.to)
is_listed(found, umove) == \E i \in 1 .. Len(found) : found[i].to = umove.to

\* An error return placed after the en-passant square was cleared.
RejectAfterRecord(b, err) == [result |-> err, board |-> [b EXCEPT !.en_passant = None]]

\* return Err(err): the call ends here and hands the board back as it is.
Reject(b, err) == [result |-> err, board |-> b]

\* try_move once get_moves_for(umove.from) has returned `found`.
try_move_found(b, umove, found) ==
    IF ~owns_piece(b, umove) THEN Reject(b, "NotYourPiece")
    ELSE IF Panicked(found) THEN [result |-> "panic", board |-> b]
    ELSE IF ~is_listed(found, umove) THEN Reject(b, "IllegalMove")
    ELSE [result |-> "Ok",
          board |-> move_piece(
                        castle_rook(
                            record_en_passant(
                                handle_en_passant(b, umove), umove), umove), umove)]

try_move(b, umove) == try_move_found(b, umove, get_moves_for(b, umove.from))

----------------------------------------------------------------------------
(* The callers: one lists the legal moves and plays one of them (as the    *)
(* engine's own move-generation test does), the other submits a move it    *)
(* built itself (as the board view does on a drop).                        *)

MaxPly == 1

\* Openings from Board::new(), as (from, to) pairs: a run plays one of
\* them first.
\*   1: the standard start
\*   2: d4 d5 Nc3 Nc6 Bf4 Bf5 Qd2 Qd7 Nf3 Nf6 e3 e6 Bd3 Bd6 (both may castle)
\*   3: g3 b6 Bg2 Ba6 Nf3 e6 e4 Nf6   (f1 is attacked by the bishop on a6)
\*   4: e4 e6 Nf3 a6 Bc4 a5 d3 Bb4+   (White is in check, f1 and g1 are free)
\*   5: e4 a6 e5 h6 Nc3 a5 Ne4 d5     (d6 is the en-passant square)
\*   6: h4 g5 hxg5 Nf6 g6 Ng8 gxh7 a6 (the pawn on h7 may take on g8)
\*   7: opening 2 and O-O            (White has castled, Black may)
\*   8: e4 a6 f4 a5 g4 a4 Ke2 h6      (the king has left e1; f2, g2 are free)
\*   9: e4 e5 Ke2 Qh4 Kd3 Qxh2 Kc3 Qxg1 Kb3 Qxh1 Na3 Qxg2 Nb1 Qxf1 Na3 Qxd1
\*      Nb1 Ke7 Na3 Kf6 Nb1 Kg5 Na3 Kg4 Nb1 Kh3 Na3 Kg2 Nb1 Kf1
\*      (the white king is on b3, c3 and d3 are free, h1 is empty and the
\*      black king stands on f1)
Lines ==
    << <<>>,
       << <<11, 27>>, <<51, 35>>, <<1, 18>>, <<57, 42>>, <<2, 29>>, <<58, 37>>,
          <<3, 11>>, <<59, 51>>, <<6, 21>>, <<62, 45>>, <<12, 20>>, <<52, 44>>,
          <<5, 19>>, <<61, 43>> >>,
       << <<14, 22>>, <<49, 41>>, <<5, 14>>, <<58, 40>>, <<6, 21>>, <<52, 44>>,
          <<12, 28>>, <<62, 45>> >>,
       << <<12, 28>>, <<52, 44>>, <<6, 21>>, <<48, 40>>, <<5, 26>>, <<40, 32>>,
          <<11, 19>>, <<61, 25>> >>,
       << <<12, 28>>, <<48, 40>>, <<28, 36>>, <<55, 47>>, <<1, 18>>, <<40, 32>>,
          <<18, 28>>, <<51, 35>> >>,
       << <<15, 31>>, <<54, 38>>, <<31, 38>>, <<62, 45>>, <<38, 46>>, <<45, 62>>,
          <<46, 55>>, <<48, 40>> >>,
       << <<11, 27>>, <<51, 35>>, <<1, 18>>, <<57, 42>>, <<2, 29>>, <<58, 37>>,
          <<3, 11>>, <<59, 51>>, <<6, 21>>, <<62, 45>>, <<12, 20>>, <<52, 44>>,
          <<5, 19>>, <<61, 43>>, <<4, 6>> >>,
       << <<12, 28>>, <<48, 40>>, <<13, 29>>, <<40, 32>>, <<14, 30>>, <<32, 24>>,
          <<4, 12>>, <<55, 47>> >>,
       << <<12, 28>>, <<52, 36>>, <<4, 12>>, <<59, 31>>, <<12, 19>>, <<31, 15>>,
          <<19, 18>>, <<15, 6>>, <<18, 17>>, <<6, 7>>, <<1, 16>>, <<7, 14>>,
          <<16, 1>>, <<14, 5>>, <<1, 16>>, <<5, 3>>, <<16, 1>>, <<60, 52>>,
          <<1, 16>>, <<52, 45>>, <<16, 1>>, <<45, 38>>, <<1, 16>>, <<38, 30>>,
          <<16, 1>>, <<30, 23>>, <<1, 16>>, <<23, 14>>, <<16, 1>>, <<14, 5>> >> >>

NoCall == [op |-> "new", move |-> PanicMove, result |-> "Ok"]

Init ==
    /\ debug_assertions \in BOOLEAN
    /\ played = 0
    /\ board = NewBoard
    /\ pre = NewBoard
    /\ call = NoCall
    /\ moves = <<>>
    /\ fen = <<>>
    /\ script \in {Lines[i] : i \in 1 .. Len(Lines)}
    /\ ply = 0

\* A panic ends the process.
Crashed == call.result = "panic"

\* The state after generate_moves() has returned ms.
Listing(ms) ==
    /\ moves' = ms
    /\ call' = [op |-> "generate_moves", move |-> PanicMove,
                result |-> IF Panicked(ms) THEN "panic" ELSE "Ok"]

\* let my_moves = my_board.generate_moves();
GenerateMoves ==
    /\ ~Crashed
    /\ script = <<>>
    /\ call.op # "generate_moves"
    /\ ply < MaxPly
    /\ Listing(generate_moves(board))
    /\ pre' = board
    /\ UNCHANGED <<board, script, ply, fen, debug_assertions, played>>

\* The state after board.try_move(umove) has returned r.
Returned(umove, r) ==
    /\ board' = r.board
    /\ pre' = board
    /\ call' = [op |-> "try_move", move |-> umove, result |-> r.result]
    /\ played' = IF r.result = "Ok" THEN played + 1 ELSE played
    /\ UNCHANGED <<moves, fen, debug_assertions>>

\* The next move of the opening.
Opening ==
    /\ script # <<>>
    /\ call.result = "Ok"
    /\ Returned(from_idxs(Head(script)[1], Head(script)[2]),
                try_move(board, from_idxs(Head(script)[1], Head(script)[2])))
    /\ script' = Tail(script)
    /\ UNCHANGED ply

\* for my_move in my_moves { board.try_move(my_move) }
Play ==
    /\ call.op = "generate_moves"
    /\ call.result = "Ok"
    /\ \E i \in 1 .. Len(moves) : Returned(moves[i], try_move(board, moves[i]))
    /\ ply' = ply + 1
    /\ UNCHANGED script

Next == Opening \/ GenerateMoves \/ Play

Spec == Init /\ [][Next]_vars

\* What a caller may put in Move::promote.
PromoteInputs == {None, King, Queen}

\* board.try_move(umove) with a move of the caller's making, as the first
\* call after the opening.
Submit ==
    /\ script = <<>>
    /\ call.op \in {"new", "try_move"}
    /\ call.result = "Ok"
    /\ ply = 0
    /\ ply' = 1
    /\ UNCHANGED script
    /\ \E from \in Squares :
          LET found == get_moves_for(board, from)
          IN  \E to \in Squares, promote \in PromoteInputs :
                  Returned(Move(from, to, promote),
                           try_move_found(board, Move(from, to, promote), found))

\* castle_rights.revoke(right) on a CastleRights value of the caller's, as
\* the test of the rights does on CastleRights::all().
Revoke ==
    /\ script = <<>>
    /\ call = NoCall
    /\ \E rights \in SUBSET AllRights, right \in AllRights :
           call' = [op |-> "revoke", move |-> PanicMove, result |-> "Ok",
                    arg |-> <<rights, right>>, value |-> revoke(rights, {right})]
    /\ pre' = board
    /\ UNCHANGED <<board, moves, script, ply, fen, debug_assertions, played>>

NextCall == Opening \/ Submit \/ Revoke

SpecCall == Init /\ [][NextCall]_vars

----------------------------------------------------------------------------
(* What the formulas below say about the last call.                        *)

Tried == call.op = "try_move"

Accepted == Tried /\ call.result = "Ok"

\* The last call was try_move of a move of the caller's generate_moves().
PlayedListed == Tried /\ \E i \in 1 .. Len(moves) : moves[i] = call.move

Listed == call.op = "generate_moves" /\ call.result = "Ok"

Mover == pre.active_color

InCheck(b, player) == find_king(b, player) \in generate_attacks(b, Not(player))

\* A king move of two files in b.
IsCastle(b, umove) ==
    /\ PieceType(b.squares[umove.from]) = King
    /\ Abs(umove.to - umove.from) = 2

\* The right a castle move uses.
CastleRight(b, umove) ==
    IF umove.to > umove.from
    THEN (IF b.active_color = "White" THEN "WhiteKingSide" ELSE "BlackKingSide")
    ELSE (IF b.active_color = "White" THEN "WhiteQueenSide" ELSE "BlackQueenSide")

\* The squares the king crosses and lands on.
CastlePath(umove) ==
    IF umove.to > umove.from THEN {umove.from + 1, umove.from + 2}
    ELSE {umove.from - 1, umove.from - 2}

\* The squares strictly between the king and the rook of the wing.
CastleBetween(umove) ==
    IF umove.to > umove.from THEN {umove.from + 1, umove.from + 2}
    ELSE {umove.from - 1, umove.from - 2, umove.from - 3}

----------------------------------------------------------------------------

\* C1: a move of generate_moves(), once applied, leaves the mover's king on
\* a square that is not in the attack map of the opponent.
C1_LegalMoveKeepsKingSafe ==
    (PlayedListed /\ Accepted) =>
        find_king(board, Mover) \notin generate_attacks(board, Not(Mover))

\* C1 witness: the mover was in check and a listed move answered it.
C1_Witness == PlayedListed /\ Accepted /\ InCheck(pre, Mover)

\* C2: try_move of a move of generate_moves() returns Ok.
C2_ListedMoveIsAccepted == PlayedListed => call.result = "Ok"

\* C2 witness: a listed promotion was accepted.
C2_Witness == PlayedListed /\ Accepted /\ call.move.promote = Queen

\* C3: a try_move that returns an error leaves every field of the board as
\* it was before the call.
C3_FailedCallChangesNothing ==
    (Tried /\ call.result \in {"NotYourPiece", "IllegalMove", "NoPromotion"}) =>
        board = pre

\* C3 witness: a move of an own piece was rejected while an en-passant
\* square was recorded.
C3_Witness == Tried /\ call.result = "IllegalMove" /\ pre.en_passant # None

\* C4: try_move returns NotYourPiece exactly when the origin square is empty
\* or holds a piece of the colour that is not to move.
C4_NotYourPieceExactly ==
    Tried =>
        (call.result = "NotYourPiece" <=>
            \/ pre.squares[call.move.from] = EmptyPiece
            \/ PlayerType(pre.squares[call.move.from]) = to_piece_color(Not(Mover)))

\* C4 witness: a move of an opponent's piece to a square that piece could
\* reach on the opponent's turn was rejected with NotYourPiece.
C4_Witness ==
    /\ Tried
    /\ call.result = "NotYourPiece"
    /\ pre.squares[call.move.from] = to_piece_color(Not(Mover)) + Pawn
    /\ call.move.to = call.move.from + forward_value(Not(Mover)) * 8
    /\ pre.squares[call.move.to] = EmptyPiece

\* C5: try_move returns IllegalMove, and applies nothing, for a move of an
\* own piece whose (from, to, promote) is not among the legal moves of the
\* origin (a promotion asked for with promote unset aside: that is C6).
C5_InexactMoveIsIllegal ==
    LET found == get_moves_for(pre, call.move.from)
    IN  (/\ Tried
         /\ is_color(pre.squares[call.move.from], Mover)
         /\ ~Panicked(found)
         /\ ~\E i \in 1 .. Len(found) : found[i] = call.move
         /\ ~(/\ call.move.promote = None
              /\ \E i \in 1 .. Len(found) : found[i].to = call.move.to))
        => (call.result = "IllegalMove" /\ board = pre)

\* C6: try_move of a legal pawn move onto the farthest rank with promote
\* unset returns NoPromotion.
C6_UnsetPromotionIsNoPromotion ==
    LET found == get_moves_for(pre, call.move.from)
    IN  (/\ Tried
         /\ pre.squares[call.move.from] = to_piece_color(Mover) + Pawn
         /\ call.move.to \div 8 \in {0, 7}
         /\ call.move.promote = None
         /\ ~Panicked(found)
         /\ \E i \in 1 .. Len(found) : found[i].to = call.move.to)
        => call.result = "NoPromotion"

\* C7: after every try_move, successful or failed, the rights held are a
\* subset of the rights held before the call.
C7_RightsOnlyShrink == Tried => board.castle_rights \subseteq pre.castle_rights

\* C7 witness: a call has taken rights away.
C7_Witness == Accepted /\ board.castle_rights # pre.castle_rights

\* C8: after a successful king move both rights of its colour are clear;
\* after a rook has left its home corner, or was taken on it, the right of
\* that wing and colour is clear.
C8_KingOrRookMoveRevokes ==
    Accepted =>
        /\ PieceType(pre.squares[call.move.from]) = King
              => board.castle_rights \cap RightsOf(Mover) = {}
        /\ pre.squares[call.move.from] = to_piece_color(Mover) + Rook
              => board.castle_rights \cap RookHomeRight(Mover, call.move.from) = {}
        /\ pre.squares[call.move.to] = to_piece_color(Not(Mover)) + Rook
              => board.castle_rights \cap RookHomeRight(Not(Mover), call.move.to) = {}

C10_NoCastleOutOfCheck ==
    /\ (Listed /\ InCheck(board, board.active_color)) =>
           ~\E i \in 1 .. Len(moves) : IsCastle(board, moves[i])
    /\ (Accepted /\ InCheck(pre, Mover)) => ~IsCastle(pre, call.move)

\* The (rook home, rook post-castle, king home, king post-castle) squares
\* of a castle of player on the east (king) or west (queen) wing.
CastledSquares(player, is_east) ==
    CASE player = "White" /\ is_east -> <<7, 5, 4, 6>>
      [] player = "White" /\ ~is_east -> <<0, 3, 4, 2>>
      [] player = "Black" /\ is_east -> <<63, 61, 60, 62>>
      [] player = "Black" /\ ~is_east -> <<56, 59, 60, 58>>

\* C11: after a successful castle move the rook of the wing stands on its
\* post-castle square, its corner is empty, the king stands two files from
\* its home square, the king's home square is empty, and no other square
\* has changed.
C11_CastleRelocatesRookAndKing ==
    (Accepted /\ IsCastle(pre, call.move)) =>
        LET sq == CastledSquares(Mover, call.move.to > call.move.from)
        IN  board.squares =
                [pre.squares EXCEPT ![sq[1]] = EmptyPiece,
                                    ![sq[2]] = to_piece_color(Mover) + Rook,
                                    ![sq[3]] = EmptyPiece,
                                    ![sq[4]] = to_piece_color(Mover) + King]

\* The last successful move was a pawn advancing two ranks.
DoublePushed ==
    /\ PieceType(pre.squares[call.move.from]) = Pawn
    /\ Abs(call.move.to - call.move.from) = 16

\* C12: after every successful try_move, en_passant is the square skipped
\* over when the move was a pawn advancing two ranks, and None otherwise.
C12_EnPassantIffDoublePush ==
    Accepted =>
        board.en_passant =
            IF DoublePushed THEN (call.move.from + call.move.to) \div 2 ELSE None

\* C12 witness: a target set by one ply is gone after the following ply,
\* which neither captured on it nor double pushed.
C12_Witness ==
    /\ Accepted
    /\ pre.en_passant # None
    /\ call.move.to # pre.en_passant
    /\ ~DoublePushed
    /\ board.en_passant = None

\* The last successful move was a pawn capturing onto the en-passant target.
CapturedEnPassant ==
    /\ Accepted
    /\ PieceType(pre.squares[call.move.from]) = Pawn
    /\ call.move.to = pre.en_passant
    /\ call.move.to % 8 # call.move.from % 8

\* C13: when a pawn captures onto the en-passant target, the pawn one rank
\* behind the target (from the mover's side) is removed, the capturing pawn
\* stands on the target and nothing else changes on the squares.
C13_EnPassantCaptureRemovesPawn ==
    CapturedEnPassant =>
        board.squares =
            [pre.squares EXCEPT
                ![call.move.to - forward_value(Mover) * 8] = EmptyPiece,
                ![call.move.from] = EmptyPiece,
                ![call.move.to] = to_piece_color(Mover) + Pawn]

\* C13 witness: an en-passant capture has removed the pawn that double
\* pushed.
C13_Witness ==
    /\ CapturedEnPassant
    /\ pre.squares[call.move.to - forward_value(Mover) * 8]
           = to_piece_color(Not(Mover)) + Pawn
    /\ pre.squares[call.move.to] = EmptyPiece

\* umove, of the side to move in b, is a pawn move onto rank index 0 or 7.
ReachesFarthestRank(b, umove) ==
    /\ PieceType(b.squares[umove.from]) = Pawn
    /\ umove.to \div 8 \in {0, 7}

\* C14: in generate_moves() a pawn move onto the farthest rank appears as
\* exactly four moves, with promote = Knight, Bishop, Rook and Queen, and
\* never with promote unset; every other move has promote unset.
C14_PromotionsComeAsFourVariants ==
    Listed =>
        \A i \in 1 .. Len(moves) :
            IF ReachesFarthestRank(board, moves[i])
            THEN /\ moves[i].promote \in {Knight, Bishop, Rook, Queen}
                 /\ \A T \in {Knight, Bishop, Rook, Queen} :
                        Cardinality({j \in 1 .. Len(moves) :
                            moves[j] = with_promote(moves[i], T)}) = 1
            ELSE moves[i].promote = None

\* C14 witness: a list that holds a promotion and a pawn move that is none.
C14_Witness ==
    /\ Listed
    /\ \E i \in 1 .. Len(moves) : ReachesFarthestRank(board, moves[i])
    /\ \E i \in 1 .. Len(moves) :
           /\ PieceType(board.squares[moves[i].from]) = Pawn
           /\ ~ReachesFarthestRank(board, moves[i])

\* C15: a successful try_move of a pawn onto the farthest rank with
\* promote = T leaves the mover's piece of type T on the destination and the
\* origin empty, and no pawn ever stands on rank index 0 or 7.
C15_PromotionReplacesThePawn ==
    /\ (/\ Accepted
        /\ ReachesFarthestRank(pre, call.move)
        /\ call.move.promote \in {Knight, Bishop, Rook, Queen}) =>
           /\ board.squares[call.move.to] =
                  to_piece_color(Mover) + call.move.promote
           /\ board.squares[call.move.from] = EmptyPiece
    /\ \A sq \in (0 .. 7) \cup (56 .. 63) :
           PieceType(board.squares[sq]) # Pawn

\* The number of listed moves whose moving piece has type ptype.
MovesOfType(ptype) ==
    Cardinality({i \in 1 .. Len(moves) :
        PieceType(board.squares[moves[i].from]) = ptype})

\* C16: on Board::new() generate_moves() returns exactly 20 moves, 16 pawn
\* moves and 4 knight moves.
C16_StartHasTwentyMoves ==
    (Listed /\ board = NewBoard) =>
        /\ Len(moves) = 20
        /\ MovesOfType(Pawn) = 16
        /\ MovesOfType(Knight) = 4

\* C16 witness: the list of the standard starting position.
C16_Witness ==
    /\ Listed
    /\ board = NewBoard
    /\ moves # <<>>

----------------------------------------------------------------------------
(* test/lib.rs: test_move_gen walks the tree of generated moves from       *)
(* Board::new(): it lists the moves of a position, plays each of them on a *)
(* clone with try_move, and descends.                                      *)

\* The depth to which the walk is followed move by move.
WalkDepth == 3

\* The depth to which the move sequences are counted.
PerftDepth == 3

RECURSIVE perft(_, _), perft_each(_, _, _)
\* The number of sequences of `depth` moves, each taken from
\* generate_moves() and accepted by try_move, that start at b.
perft(b, depth) ==
    IF depth = 0 THEN 1
    ELSE perft_each(b, generate_moves(b), depth)

\* for my_move in my_moves { board.try_move(my_move).expect(..); recurse }
perft_each(b, my_moves, depth) ==
    IF my_moves = <<>> \/ Panicked(my_moves) THEN 0
    ELSE IF depth = 1 THEN Len(my_moves)
    ELSE perft(try_move(b, Head(my_moves)).board, depth - 1)
         + perft_each(b, Tail(my_moves), depth)

\* test_board_moves: the walk starts at Board::new().
InitTest ==
    /\ Init
    /\ script = <<>>

\* let my_moves = my_board.generate_moves();
TestGenerate ==
    /\ ~Crashed
    /\ call.op # "generate_moves"
    /\ ply < WalkDepth
    /\ Listing(generate_moves(board))
    /\ pre' = board
    /\ UNCHANGED <<board, script, ply, fen, debug_assertions, played>>

\* board.try_move(my_move).expect("A generated move should be legal");
\* test_move_gen(board, depth - 1);
TestPlay ==
    /\ call.op = "generate_moves"
    /\ call.result = "Ok"
    /\ \E i \in 1 .. Len(moves) : Returned(moves[i], try_move(board, moves[i]))
    /\ ply' = ply + 1
    /\ UNCHANGED script

NextTest == TestGenerate \/ TestPlay

SpecTest == InitTest /\ [][NextTest]_vars

\* The squares after a move that only relocates one piece, as every chess
\* move does that is no castle, en-passant capture or promotion.
Relocated(squares, umove) ==
    [squares EXCEPT ![umove.from] = EmptyPiece, ![umove.to] = squares[umove.from]]

\* C17: from Board::new() the number of sequences of d legal moves, each
\* taken from generate_moves() and applied with try_move, is 20, 400, 8902,
\* 197281 for d = 1, 2, 3, 4 (counted to PerftDepth), the positions on the
\* way being those of chess: within these depths no castle, en-passant
\* capture or promotion is possible, so a move relocates one piece and
\* leaves every other square as it was.
C17_PerftCounts ==
    /\ (call.op = "new") =>
           \A d \in 1 .. PerftDepth : perft(board, d) = <<20, 400, 8902, 197281>>[d]
    /\ Accepted => board.squares = Relocated(pre.squares, call.move)

----------------------------------------------------------------------------
(* fen.rs: the FEN codec. A text is a sequence of one-character strings.   *)

DigitChars == <<"0", "1", "2", "3", "4", "5", "6", "7", "8", "9">>

FileChars == <<"a", "b", "c", "d", "e", "f", "g", "h">>

\* The position of c in chars, counted from 0, or None.
IndexOf(chars, c) ==
    IF \E i \in 1 .. Len(chars) : chars[i] = c
    THEN (CHOOSE i \in 1 .. Len(chars) : chars[i] = c) - 1
    ELSE None

\* c.to_digit(10)
to_digit(c) == IndexOf(DigitChars, c)

RECURSIVE Digits(_)
\* n.to_string() of an unsigned integer
Digits(n) ==
    IF n < 10 THEN <<DigitChars[n + 1]>>
    ELSE Digits(n \div 10) \o <<DigitChars[(n % 10) + 1]>>

\* str::parse::<u32>(): an optional '+', then at least one decimal digit.
parse_unsigned(text) ==
    LET digits == IF text # <<>> /\ Head(text) = "+" THEN Tail(text) ELSE text
        value[n \in 0 .. Len(digits)] ==
            IF n = 0 THEN 0 ELSE value[n - 1] * 10 + to_digit(digits[n])
    IN  IF digits = <<>> \/ \E i \in 1 .. Len(digits) : to_digit(digits[i]) = None
        THEN None
        ELSE value[Len(digits)]

\* An Option<String> that is None: no name is the empty text.
NoName == <<>>

\* idx_to_square_name: file letter and rank digit, "a1" for 0, "h8" for 63.
idx_to_square_name(pos) ==
    IF pos \in Squares
    THEN <<FileChars[(pos % 8) + 1], DigitChars[(pos \div 8) + 2]>>
    ELSE NoName

\* square_name_to_idx: the inverse, None for anything that is no square name.
square_name_to_idx(name) ==
    IF /\ Len(name) = 2
       /\ IndexOf(FileChars, name[1]) # None
       /\ to_digit(name[2]) \in 1 .. 8
    THEN (to_digit(name[2]) - 1) * 8 + IndexOf(FileChars, name[1])
    ELSE None

UpperChars == <<"K", "P", "N", "B", "R", "Q">>

LowerChars == <<"k", "p", "n", "b", "r", "q">>

\* char::is_uppercase and char::to_lowercase on the letters that name pieces;
\* no other character is matched by piece_from_fen.
is_uppercase(c) == IndexOf(UpperChars, c) # None

to_lowercase(c) == IF is_uppercase(c) THEN LowerChars[IndexOf(UpperChars, c) + 1] ELSE c

to_uppercase(c) ==
    IF IndexOf(LowerChars, c) # None THEN UpperChars[IndexOf(LowerChars, c) + 1] ELSE c

piece_from_fen(c) ==
    LET piece_type == CASE to_lowercase(c) = "k" -> King
                        [] to_lowercase(c) = "p" -> Pawn
                        [] to_lowercase(c) = "n" -> Knight
                        [] to_lowercase(c) = "b" -> Bishop
                        [] to_lowercase(c) = "r" -> Rook
                        [] to_lowercase(c) = "q" -> Queen
                        [] OTHER -> None
    IN  IF piece_type = None THEN None
        ELSE (IF is_uppercase(c) THEN White ELSE Black) + piece_type

\* The outcome of a parse step: Ok or the error, and the board as the step
\* left it.
Parsed(b) == [result |-> "Ok", board |-> b]

Failed(b, err) == [result |-> err, board |-> b]

\* self.squares.get_mut(i) is Some. A usize is kept as its residue nearest
\* to zero, 2^64 - k as -k, so a wrapped index is negative.
InBoard(i) == i \in Squares

\* The squares after `*square = Piece::empty()` for idx in 0 .. n.
EmptyRun(squares, first, n) ==
    [s \in Squares |-> IF s >= first /\ s < first + n THEN EmptyPiece ELSE squares[s]]

\* The number of squares of a digit run written before get_mut fails.
RunBeforeOverrun(first, num) ==
    Cardinality({idx \in 0 .. num - 1 : \A j \in 0 .. idx : InBoard(first + j)})

\* The state of the loop of parse_board: the board, the counters file and
\* rank, and the error that ended the loop, if any.
Scan(b, file, rank) == [board |-> b, file |-> file, rank |-> rank, result |-> "Ok"]

\* The digit branch: `first` is rank * 8 + file.
parse_board_digit(st, first, num) ==
    IF RunBeforeOverrun(first, num) < num
    THEN [st EXCEPT !.board.squares = EmptyRun(@, first, RunBeforeOverrun(first, num)),
                    !.result = "InvalidData(Board)"]
    ELSE [st EXCEPT !.board.squares = EmptyRun(@, first, num),
                    !.file = @ + num]

\* The piece branch: `square` is rank * 8 + file.
parse_board_piece(st, square, piece) ==
    IF piece = None \/ ~InBoard(square) THEN [st EXCEPT !.result = "InvalidData(Board)"]
    ELSE [st EXCEPT !.board.squares[square] = piece, !.file = @ + 1]

\* One iteration of the loop of parse_board, on character c. `rank -= 1` at
\* rank 0 panics where overflow checks are on (they follow debug_assertions)
\* and wraps where they are off.
parse_board_char(st, c) ==
    IF st.result # "Ok" THEN st
    ELSE IF c = "/"
    THEN IF st.rank = 0 /\ debug_assertions THEN [st EXCEPT !.result = "panic"]
         ELSE [st EXCEPT !.file = 0, !.rank = @ - 1]
    ELSE IF to_digit(c) # None
    THEN parse_board_digit(st, st.rank * 8 + st.file, to_digit(c))
    ELSE parse_board_piece(st, st.rank * 8 + st.file, piece_from_fen(c))

RECURSIVE parse_board_chars(_, _, _, _)
\* The iterations for the characters lo .. hi, in order (taken in halves,
\* which keeps the evaluation shallow); an error ends the loop.
parse_board_chars(st, text, lo, hi) ==
    IF lo > hi \/ st.result # "Ok" THEN st
    ELSE IF lo = hi THEN parse_board_char(st, text[lo])
    ELSE parse_board_chars(parse_board_chars(st, text, lo, (lo + hi) \div 2),
                           text, ((lo + hi) \div 2) + 1, hi)

\* What parse_board returns and leaves in self from the last loop state.
ScanOutcome(st) == [result |-> st.result, board |-> st.board]

\* let mut file: usize = 0; let mut rank: usize = 7;
parse_board(b, text) == ScanOutcome(parse_board_chars(Scan(b, 0, 7), text, 1, Len(text)))

parse_active_color(b, active_color) ==
    IF active_color = <<"w">> THEN Parsed([b EXCEPT !.active_color = "White"])
    ELSE IF active_color = <<"b">> THEN Parsed([b EXCEPT !.active_color = "Black"])
    ELSE Failed(b, "InvalidData(ActiveColor)")

\* The right a character of the castling field names, if any.
CastleLetter(c) ==
    CASE c = "K" -> {"WhiteKingSide"}
      [] c = "Q" -> {"WhiteQueenSide"}
      [] c = "k" -> {"BlackKingSide"}
      [] c = "q" -> {"BlackQueenSide"}
      [] OTHER -> {}

RECURSIVE parse_castling(_, _)
\* self.castle_rights |= right, character by character.
parse_castling(b, castling) ==
    IF castling = <<>> THEN Parsed(b)
    ELSE IF CastleLetter(Head(castling)) = {} THEN Failed(b, "InvalidData(CastleRights)")
    ELSE parse_castling(
             [b EXCEPT !.castle_rights = @ \cup CastleLetter(Head(castling))],
             Tail(castling))

parse_en_passant(b, en_passant) ==
    IF en_passant = <<"-">> THEN Parsed([b EXCEPT !.en_passant = None])
    ELSE IF square_name_to_idx(en_passant) = None THEN Failed(b, "InvalidData(EnPassant)")
    ELSE Parsed([b EXCEPT !.en_passant = square_name_to_idx(en_passant)])

parse_halfmove(b, halfmove) ==
    IF parse_unsigned(halfmove) = None THEN Failed(b, "InvalidData(HalfMove)")
    ELSE Parsed([b EXCEPT !.halfmove = parse_unsigned(halfmove)])

parse_fullmove(b, fullmove) ==
    IF parse_unsigned(fullmove) = None THEN Failed(b, "InvalidData(FullMove)")
    ELSE Parsed([b EXCEPT !.fullmove = parse_unsigned(fullmove)])

RECURSIVE split(_, _)
\* fen.split(' '): the fields between the separators, in order.
split(text, sep) ==
    IF IndexOf(text, sep) = None THEN <<text>>
    ELSE <<SubSeq(text, 1, IndexOf(text, sep))>>
         \o split(SubSeq(text, IndexOf(text, sep) + 2, Len(text)), sep)

\* FenPart, in the order of the fields.
FenPart == <<"Board", "ActiveColor", "CastleRights", "EnPassant", "HalfMove", "FullMove">>

\* FenParseErr::missing(part)
MissingComponent ==
    <<"MissingComponent(Board)", "MissingComponent(ActiveColor)",
      "MissingComponent(CastleRights)", "MissingComponent(EnPassant)",
      "MissingComponent(HalfMove)", "MissingComponent(FullMove)">>

\* The parse steps of load_fen after parse_board: the `?` after a step ends
\* the call on an error, so a step runs only if the one before returned Ok.
then_active_color(r, active_color) ==
    IF r.result = "Ok" THEN parse_active_color(r.board, active_color) ELSE r

then_castling(r, castling) ==
    IF r.result = "Ok" THEN parse_castling(r.board, castling) ELSE r

then_en_passant(r, en_passant) ==
    IF r.result = "Ok" THEN parse_en_passant(r.board, en_passant) ELSE r

then_halfmove(r, halfmove) ==
    IF r.result = "Ok" THEN parse_halfmove(r.board, halfmove) ELSE r

then_fullmove(r, fullmove) ==
    IF r.result = "Ok" THEN parse_fullmove(r.board, fullmove) ELSE r

\* A load that parses the placement field before it counts the fields.
load_fields_eager(b, fields) ==
    IF Len(fields) < 6
    THEN Failed(parse_board(b, fields[1]).board, MissingComponent[Len(fields) + 1])
    ELSE IF Len(fields) > 6
    THEN Failed(parse_board(b, fields[1]).board, "TooManyComponents")
    ELSE then_fullmove(then_halfmove(then_en_passant(then_castling(
             then_active_color(parse_board(b, fields[1]), fields[2]),
             fields[3]), fields[4]), fields[5]), fields[6])

\* load_fen once the text is split.
load_fields(b, fields) ==
    IF Len(fields) < 6 THEN Failed(b, MissingComponent[Len(fields) + 1])
    ELSE IF Len(fields) > 6 THEN Failed(b, "TooManyComponents")
    ELSE then_fullmove(then_halfmove(then_en_passant(then_castling(
             then_active_color(parse_board(b, fields[1]), fields[2]),
             fields[3]), fields[4]), fields[5]), fields[6])

load_fen(b, text) == load_fields(b, split(text, " "))

\* CastleRights::to_fen
to_fen(rights) ==
    LET output == (IF has_right(rights, {"WhiteKingSide"}) THEN <<"K">> ELSE <<>>)
               \o (IF has_right(rights, {"WhiteQueenSide"}) THEN <<"Q">> ELSE <<>>)
               \o (IF has_right(rights, {"BlackKingSide"}) THEN <<"k">> ELSE <<>>)
               \o (IF has_right(rights, {"BlackQueenSide"}) THEN <<"q">> ELSE <<>>)
    IN  IF output = <<>> THEN <<"-">> ELSE output

\* The letter of a piece in the placement field.
piece_name(piece) ==
    LET name == CASE PieceType(piece) = King -> "k"
                  [] PieceType(piece) = Queen -> "q"
                  [] PieceType(piece) = Knight -> "n"
                  [] PieceType(piece) = Bishop -> "b"
                  [] PieceType(piece) = Rook -> "r"
                  [] PieceType(piece) = Pawn -> "p"
    IN  IF is_color(piece, "White") THEN to_uppercase(name) ELSE name

\* The pending count of empty squares, written out if there is one.
FlushEmpty(empty) == IF empty # 0 THEN Digits(empty) ELSE <<>>

RECURSIVE rank_placement(_, _, _, _)
\* The inner loop of get_fen_piece_placement from `file` on.
rank_placement(b, rank, file, empty) ==
    IF file = 8 THEN FlushEmpty(empty)
    ELSE IF b.squares[rank * 8 + file] = EmptyPiece
    THEN rank_placement(b, rank, file + 1, empty + 1)
    ELSE FlushEmpty(empty) \o <<piece_name(b.squares[rank * 8 + file])>>
         \o rank_placement(b, rank, file + 1, 0)

RECURSIVE get_fen_piece_placement_from(_, _)
\* for rank in (0..8).rev()
get_fen_piece_placement_from(b, rank) ==
    rank_placement(b, rank, 0, 0)
    \o (IF rank # 0 THEN <<"/">> \o get_fen_piece_placement_from(b, rank - 1)
        ELSE <<>>)

get_fen_piece_placement(b) == get_fen_piece_placement_from(b, 7)

get_fen_en_passant(b) ==
    IF b.en_passant = None \/ idx_to_square_name(b.en_passant) = NoName THEN <<"-">>
    ELSE idx_to_square_name(b.en_passant)

\* format!("{} {} {} {} {} {}", ..)
FormatFen(piece_placement, active_color, castle_rights, en_passant, half_move, full_move) ==
    piece_placement \o <<" ">> \o active_color \o <<" ">> \o castle_rights
    \o <<" ">> \o en_passant \o <<" ">> \o half_move \o <<" ">> \o full_move

get_fen(b) ==
    FormatFen(get_fen_piece_placement(b),
              IF b.active_color = "White" THEN <<"w">> ELSE <<"b">>,
              to_fen(b.castle_rights),
              get_fen_en_passant(b),
              Digits(b.halfmove),
              Digits(b.fullmove))

----------------------------------------------------------------------------
(* A caller of the codec: it plays an opening, and then reloads the        *)
(* position from its own FEN or loads a text of its choosing, into the     *)
(* board it has or into a Board::empty().                                  *)

RECURSIVE Ranks(_)
\* A placement of n empty ranks.
Ranks(n) == IF n = 1 THEN <<"8">> ELSE <<"8", "/">> \o Ranks(n - 1)

\* "rnbqkbnr/pppppppp/8/8/8/8/PPPPPPPP/RNBQKBNR w KQkq - 0 1" (lib.rs:194)
StartFen ==
    FormatFen(<<"r", "n", "b", "q", "k", "b", "n", "r", "/",
                "p", "p", "p", "p", "p", "p", "p", "p", "/",
                "8", "/", "8", "/", "8", "/", "8", "/",
                "P", "P", "P", "P", "P", "P", "P", "P", "/",
                "R", "N", "B", "Q", "K", "B", "N", "R">>,
              <<"w">>, <<"K", "Q", "k", "q">>, <<"-">>, <<"0">>, <<"1">>)

\* The texts the caller may load.
FenInputs ==
    { StartFen,
      FormatFen(Ranks(8), <<"w">>, <<"K">>, <<"-">>, <<"0">>, <<"1">>),
      FormatFen(Ranks(8), <<"b">>, <<"k", "q">>, <<"e", "3">>, <<"1", "2">>, <<"3", "4">>),
      FormatFen(Ranks(8), <<"w">>, <<"-">>, <<"-">>, <<"0">>, <<"1">>),
      FormatFen(Ranks(8), <<"w">>, <<>>, <<"-">>, <<"0">>, <<"1">>),
      FormatFen(Ranks(9), <<"w">>, <<"K", "Q">>, <<"-">>, <<"0">>, <<"1">>),
      FormatFen(Ranks(8) \o <<"/">>, <<"w">>, <<"K", "Q">>, <<"-">>, <<"0">>, <<"1">>),
      FormatFen(Ranks(8) \o <<"/", "p">>, <<"w">>, <<"K", "Q">>, <<"-">>, <<"0">>, <<"1">>),
      FormatFen(Ranks(8), <<"x">>, <<"K">>, <<"-">>, <<"0">>, <<"1">>),
      FormatFen(Ranks(8), <<"w">>, <<"K", "x">>, <<"-">>, <<"0">>, <<"1">>),
      FormatFen(Ranks(8), <<"w">>, <<"q">>, <<"e", "9">>, <<"0">>, <<"1">>),
      FormatFen(Ranks(8), <<"w">>, <<"q">>, <<"-">>, <<"x">>, <<"1">>),
      FormatFen(Ranks(8), <<"w">>, <<"q">>, <<"-">>, <<"0">>, <<>>),
      Ranks(8) \o <<" ", "w", " ", "K">>,
      StartFen \o <<" ", "1">>,
      FormatFen(<<"9", "/">> \o Ranks(7), <<"w">>, <<"K", "Q", "k", "q">>, <<"-">>, <<"0">>, <<"1">>),
      FormatFen(<<"8", "/", "p", "p", "p", "p", "p", "p", "p", "p", "p", "/">> \o Ranks(6),
                <<"w">>, <<"K", "Q", "k", "q">>, <<"-">>, <<"0">>, <<"1">>),
      FormatFen(<<"r", "7", "/", "9", "/">> \o Ranks(6),
                <<"w">>, <<"K", "Q", "k", "q">>, <<"-">>, <<"0">>, <<"1">>),
      <<>>,
      Ranks(8),
      Ranks(8) \o <<" ", "b", " ", "-", " ", "e", "3", " ", "7">>,
      FormatFen(split(StartFen, " ")[1], <<"w">>, <<"K", "Q", "k", "q">>, <<"-">>,
                <<"5">>, <<"9">>) }

\* Opening 7 and O-O by Black: neither side holds a castling right.
BothCastled == Lines[7] \o << <<60, 62>> >>

InitFen ==
    /\ debug_assertions \in BOOLEAN
    /\ played = 0
    /\ board = NewBoard
    /\ pre = NewBoard
    /\ call = NoCall
    /\ moves = <<>>
    /\ fen = <<>>
    /\ script \in {Lines[i] : i \in 1 .. Len(Lines)} \cup {BothCastled}
    /\ ply = 0

\* The caller holds a position made by Board::new() and try_move.
Positioned == call.op \in {"new", "try_move"} /\ call.result = "Ok"

FenOpening == Positioned /\ Opening

\* board = Board::empty()
Empty ==
    /\ Positioned
    /\ script = <<>>
    /\ ply = 0
    /\ board' = EmptyBoard
    /\ pre' = board
    /\ call' = [op |-> "empty", move |-> PanicMove, result |-> "Ok"]
    /\ UNCHANGED <<moves, script, ply, fen, debug_assertions, played>>

\* The state after board.load_fen(text) has returned r.
Loaded(op, text, r) ==
    /\ board' = r.board
    /\ pre' = board
    /\ fen' = text
    /\ call' = [op |-> op, move |-> PanicMove, result |-> r.result]
    /\ UNCHANGED <<moves, script, ply, debug_assertions, played>>

LoadInto(op, text) == Loaded(op, text, load_fen(board, text))

\* board.load_fen(text)
LoadFen ==
    /\ call.op \in {"new", "try_move", "empty"}
    /\ call.result = "Ok"
    /\ script = <<>>
    /\ ply = 0
    /\ \E text \in FenInputs : LoadInto("load_fen", text)

\* board.load_fen(&board.get_fen())
RoundTrip ==
    /\ Positioned
    /\ LoadInto("load_fen(get_fen)", get_fen(board))

\* The moves tried on a loaded position: e2e4, e2e5, e7e5 and g1f3.
FenMoves == {from_idxs(12, 28), from_idxs(12, 36), from_idxs(52, 36), from_idxs(6, 21)}

\* board.try_move(umove) as the first call after a load_fen that returned Ok.
FenTryMove ==
    /\ call.op \in {"load_fen", "load_fen(get_fen)"}
    /\ call.result = "Ok"
    /\ ply = 0
    /\ ply' = 1
    /\ UNCHANGED script
    /\ \E umove \in FenMoves : Returned(umove, try_move(board, umove))

NextFen == FenOpening \/ Empty \/ LoadFen \/ RoundTrip \/ FenTryMove

SpecFen == InitFen /\ [][NextFen]_vars

\* The last call was a load_fen that returned.
LoadedFen == call.op \in {"load_fen", "load_fen(get_fen)"}

\* Board::new() is Board::empty() with the start text loaded.
NewIsLoadedStart ==
    (call.op = "load_fen" /\ fen = StartFen /\ pre = EmptyBoard) =>
        call.result = "Ok" /\ board = NewBoard

\* C18: for a position p reached from Board::new() by successful try_move
\* calls, load_fen(get_fen(p)) succeeds and yields a position equal to p in
\* every field, whether or not p holds castling rights or an en-passant
\* square.
C18_FenRoundTrip ==
    (call.op = "load_fen(get_fen)") =>
        /\ call.result = "Ok"
        /\ board = pre

\* The rights whose letters appear in a castling field.
RightsNamed(castling) == UNION {CastleLetter(castling[i]) : i \in 1 .. Len(castling)}

\* C19: after a successful load_fen, castle_rights is exactly the set of
\* rights whose letters K, Q, k, q appear in the castling field, whatever
\* rights the board held before the call.
C19_CastleRightsAreTheLetters ==
    (LoadedFen /\ call.result = "Ok") =>
        board.castle_rights = RightsNamed(split(fen, " ")[3])

\* The number of '/' characters in a placement field.
SlashCount(placement) ==
    Cardinality({i \in 1 .. Len(placement) : placement[i] = "/"})

\* C20: load_fen on a placement field with more than seven '/' characters
\* returns Err(InvalidData) for the placement field: the rank counter does
\* not go below 0 and there is no panic.
C20_TooManyRanksIsInvalidData ==
    (LoadedFen /\ SlashCount(split(fen, " ")[1]) > 7) =>
        call.result = "InvalidData(Board)"

RECURSIVE Describe(_)
\* The squares a rank of a placement field describes, from file a on: a
\* digit stands for that many empty squares, a letter for its piece.
Describe(rank_text) ==
    IF rank_text = <<>> THEN <<>>
    ELSE (IF to_digit(Head(rank_text)) # None
          THEN [i \in 1 .. to_digit(Head(rank_text)) |-> EmptyPiece]
          ELSE <<piece_from_fen(Head(rank_text))>>)
         \o Describe(Tail(rank_text))

\* A rank of the placement field describes more than 8 files.
Overwide(placement) ==
    \E k \in 1 .. Len(split(placement, "/")) : Len(Describe(split(placement, "/")[k])) > 8

\* The squares of rank 8 - k hold what the k-th rank of the placement field
\* describes for the files a to h.
RanksKeptApart(squares, ranks) ==
    \A k \in 1 .. Len(ranks) :
        \A f \in 1 .. Min(8, Len(Describe(ranks[k]))) :
            squares[(8 - k) * 8 + (f - 1)] = Describe(ranks[k])[f]

\* C21: load_fen on a placement field in which a rank describes more than
\* 8 files (letters plus digit runs, the digit 9 included) returns
\* Err(InvalidData) for the placement field, and a load_fen that returns Ok
\* on a field of at most 8 ranks has written each rank's content into the
\* squares of that rank only.
C21_WideRankIsInvalidData ==
    /\ (LoadedFen /\ Overwide(split(fen, " ")[1])) =>
           call.result = "InvalidData(Board)"
    /\ (LoadedFen /\ call.result = "Ok" /\ SlashCount(split(fen, " ")[1]) <= 7) =>
           RanksKeptApart(board.squares, split(split(fen, " ")[1], "/"))

\* C22: load_fen on a text of k < 6 space-separated fields returns
\* MissingComponent naming the field after the k-th in the order Board,
\* ActiveColor, CastleRights, EnPassant, HalfMove, FullMove; on a text of
\* more than 6 fields it returns TooManyComponents; in both cases the board
\* is as it was before the call.
C22_FieldCountIsCheckedFirst ==
    /\ (LoadedFen /\ Len(split(fen, " ")) < 6) =>
           /\ call.result = MissingComponent[Len(split(fen, " ")) + 1]
           /\ board = pre
    /\ (LoadedFen /\ Len(split(fen, " ")) > 6) =>
           /\ call.result = "TooManyComponents"
           /\ board = pre

\* C22 witness: a text of five fields was loaded into the start position
\* and the call named FullMove.
C22_Witness ==
    /\ LoadedFen
    /\ Len(split(fen, " ")) = 5
    /\ call.result = "MissingComponent(FullMove)"
    /\ pre = NewBoard

----------------------------------------------------------------------------
(* ai.rs: the negamax search. A score (f32) is kept as an integer;         *)
(* f32::NEG_INFINITY is a value below every score of a scoring function,   *)
(* and its negation is above every one.                                    *)

NEG_INFINITY == -1000000

\* Piece::score_value
score_value(piece) ==
    LET color_mult == CASE PlayerType(piece) = White -> 1
                        [] PlayerType(piece) = Black -> -1
                        [] OTHER -> 0
        value == CASE PieceType(piece) = Pawn -> 1
                   [] PieceType(piece) = Knight -> 3
                   [] PieceType(piece) = Bishop -> 3
                   [] PieceType(piece) = Rook -> 5
                   [] PieceType(piece) = Queen -> 9
                   [] OTHER -> 0
    IN  value * color_mult

RECURSIVE sum_score_values(_, _, _)
\* self.squares.iter().map(Piece::score_value).sum::<i32>() over the
\* indices lo .. hi (added up in halves, which keeps the evaluation shallow).
sum_score_values(squares, lo, hi) ==
    IF lo = hi THEN score_value(squares[lo])
    ELSE sum_score_values(squares, lo, (lo + hi) \div 2)
         + sum_score_values(squares, ((lo + hi) \div 2) + 1, hi)

score_material(b) ==
    LET current_color_mult == IF b.active_color = "Black" THEN -1 ELSE 1
    IN  sum_score_values(b.squares, 0, 63) * current_color_mult

\* The scoring functions a caller passes: the material count, and one that
\* gives every position the same score.
Scorings == {"score_material", "score_level"}

\* scoring(self)
scoring_of(scoring, b) ==
    IF scoring = "score_material" THEN score_material(b) ELSE 1

\* Board::is_in_check: the king's square in the attack map of `player`.
is_in_check(b, player) ==
    find_king(b, player) \in generate_attacks(b, player)

\* Board::make_simple_move: applies umove to the clone; its Result is
\* dropped by the caller.
make_simple_move(b, umove) == unchecked_make_move(b, umove).board

\* A comparison that also replaces the best move on an equal score.
is_better_or_equal(score, best_score) == score >= best_score

\* if score > best_score
is_better(score, best_score) == score > best_score

\* A leaf that scores the position for the side that is not to move.
score_leaf_negated(b, scoring) == <<0, -scoring_of(scoring, b)>>

\* return (0, scoring(self));
score_leaf(b, scoring) == <<0, scoring_of(scoring, b)>>

\* The branch search takes: depth == 0 first, then moves.is_empty().
search_branch(depth, mvs) ==
    IF depth = 0 THEN "leaf" ELSE IF mvs = <<>> THEN "none" ELSE "loop"

\* The end of one iteration: best is <<i, best_score>> before it, score
\* the score of the move at idx.
keep_better(best, idx, score) ==
    IF is_better(score, best[2]) THEN <<idx, score>> ELSE best

RECURSIVE search(_, _, _, _), search_moves(_, _, _, _, _, _, _), search_move(_, _, _, _, _, _), search_after(_, _, _)
\* Board::search, returning <<index, score>>.
search(b, depth, mvs, scoring) ==
    CASE search_branch(depth, mvs) = "leaf" -> score_leaf(b, scoring)
      [] search_branch(depth, mvs) = "none" ->
             IF is_in_check(b, b.active_color) THEN <<0, NEG_INFINITY>> ELSE <<0, 0>>
      [] OTHER -> search_moves(b, depth, mvs, scoring, 0, Len(mvs) - 1, <<0, NEG_INFINITY>>)

\* board.search(depth, &board.generate_moves(), scoring) on the clone.
search_after(new_board, depth, scoring) ==
    search(new_board, depth, generate_moves(new_board), scoring)

\* One iteration of the loop over moves.iter().enumerate(), at index idx.
search_move(b, depth, mvs, scoring, idx, best) ==
    keep_better(best, idx,
                -search_after(make_simple_move(b, mvs[idx + 1]), depth - 1, scoring)[2])

\* The iterations for the indices lo .. hi, in order, from <<i, best_score>>
\* = best. They are taken in halves, and best, whose index is below lo, is
\* read first: both keep the evaluation shallow.
search_moves(b, depth, mvs, scoring, lo, hi, best) ==
    IF best[1] > lo THEN best
    ELSE IF lo = hi THEN search_move(b, depth, mvs, scoring, lo, best)
    ELSE search_moves(b, depth, mvs, scoring, ((lo + hi) \div 2) + 1, hi,
                      search_moves(b, depth, mvs, scoring, lo, (lo + hi) \div 2, best))

\* A lookup that takes the index for a position counted from one.
get_from_one(mvs, idx) == IF idx + 1 < Len(mvs) THEN <<mvs[idx + 2]>> ELSE <<>>

\* moves.get(idx).copied(): an Option<Move>, as a sequence of at most one.
get(mvs, idx) == IF idx < Len(mvs) THEN <<mvs[idx + 1]>> ELSE <<>>

\* get_best_move once search has returned `found`.
get_best_move_found(mvs, found) == get(mvs, found[1])

\* get_best_move once generate_moves() has returned mvs.
get_best_move_of(b, depth, mvs, scoring) ==
    get_best_move_found(mvs, search(b, depth, mvs, scoring))

get_best_move(b, depth, scoring) == get_best_move_of(b, depth, generate_moves(b), scoring)

----------------------------------------------------------------------------
(* A caller of the search: it plays an opening, then asks whether a side   *)
(* is in check, searches the position, or lets the bot move.               *)

\* The depth to which a caller searches.
SearchDepth == 2

\* f3 e5 g4 Qh4: White is checkmated.
FoolsMate == << <<13, 21>>, <<52, 36>>, <<14, 30>>, <<59, 31>> >>

\* e4 f6 Qh5+: Black is in check and g6 is the only legal move.
OnlyMove == << <<12, 28>>, <<53, 45>>, <<3, 39>> >>

\* e3 a5 Qh5 Ra6 Qxa5 h5 h4 Rah6 Qxc7 f6 Qxd7+ Kf7 Qxb7 Qd3 Qxb8 Qh7 Qxc8
\* Kg6 Qe6: Black is stalemated.
Stalemate ==
    << <<12, 20>>, <<48, 32>>, <<3, 39>>, <<56, 40>>, <<39, 32>>, <<55, 39>>,
       <<15, 31>>, <<40, 47>>, <<32, 50>>, <<53, 45>>, <<50, 51>>, <<60, 53>>,
       <<51, 49>>, <<59, 19>>, <<49, 57>>, <<19, 55>>, <<57, 58>>, <<53, 46>>,
       <<58, 44>> >>

InitAi ==
    /\ debug_assertions \in BOOLEAN
    /\ played = 0
    /\ board = NewBoard
    /\ pre = NewBoard
    /\ call = NoCall
    /\ moves = <<>>
    /\ fen = <<>>
    /\ script \in {Lines[4], OnlyMove, FoolsMate, Stalemate}
    /\ ply = 0

\* The state after a call of the engine that leaves the board alone: what
\* was asked, with which arguments, what the search inside returned and
\* what came back.
Answered(op, arg, mvs, found, value) ==
    /\ call' = [op |-> op, move |-> PanicMove, result |-> "Ok",
                arg |-> arg, found |-> found, value |-> value]
    /\ moves' = mvs
    /\ pre' = board
    /\ UNCHANGED <<board, script, ply, fen, debug_assertions, played>>

\* The caller may ask: the opening is played and the bot has moves left.
Asking ==
    /\ script = <<>>
    /\ call.op \in {"new", "try_move"}
    /\ call.result = "Ok"
    /\ ply < MaxPly

\* board.is_in_check(player)
IsInCheck ==
    /\ Asking
    /\ \E player \in Player :
           Answered("is_in_check", player, moves, <<>>, is_in_check(board, player))

\* The state after get_best_move, whose search returned `found`.
Chosen(arg, mvs, found) ==
    Answered("get_best_move", arg, mvs, found, get_best_move_found(mvs, found))

\* The state after get_best_move, whose generate_moves() returned mvs.
Searched(depth, mvs, scoring) ==
    Chosen(<<depth, scoring>>, mvs, search(board, depth, mvs, scoring))

\* board.get_best_move(depth, score): generate_moves, search, moves.get
GetBestMove ==
    /\ Asking
    /\ \E depth \in 0 .. SearchDepth, scoring \in Scorings :
           Searched(depth, generate_moves(board), scoring)

\* bot_move: let umove = board.get_best_move(depth, score).unwrap();
\* board.try_move(umove)
BotMove ==
    /\ call.op = "get_best_move"
    /\ IF call.value = <<>>
       THEN /\ call' = [op |-> "bot_move", move |-> PanicMove, result |-> "panic"]
            /\ pre' = board
            /\ UNCHANGED <<board, moves, fen, debug_assertions, played>>
       ELSE Returned(call.value[1], try_move(board, call.value[1]))
    /\ ply' = ply + 1
    /\ UNCHANGED script

NextAi == Opening \/ IsInCheck \/ GetBestMove \/ BotMove

SpecAi == InitAi /\ [][NextAi]_vars

\* C23: is_in_check(player) returns true if and only if the square of
\* player's king is in the attack map of the opponent of player; so it
\* returns true for the side to move when an enemy piece gives check.
C23_InCheckIffKingAttacked ==
    (call.op = "is_in_check") => (call.value = InCheck(board, call.arg))

\* C24: search with depth >= 1 on a position without legal moves returns
\* the score -infinity when the king of the side to move is attacked by the
\* opponent (checkmate) and the score 0 when it is not (stalemate).
C24_MateIsMinusInfinityStalemateZero ==
    (call.op = "get_best_move" /\ call.arg[1] >= 1 /\ moves = <<>>) =>
        call.found[2] = IF InCheck(board, board.active_color) THEN NEG_INFINITY ELSE 0

RECURSIVE ScoresAfter(_, _, _, _)
\* For each move of mvs, in order, the negation of the score that search
\* at depth - 1 returns on the position after the move.
ScoresAfter(b, depth, mvs, scoring) ==
    IF mvs = <<>> THEN <<>>
    ELSE <<-search_after(make_simple_move(b, Head(mvs)), depth - 1, scoring)[2]>>
         \o ScoresAfter(b, depth, Tail(mvs), scoring)

RECURSIVE LeafScoresAfter(_, _, _)
\* For each move of mvs, in order, the negation of the scoring function on
\* the position after the move.
LeafScoresAfter(b, mvs, scoring) ==
    IF mvs = <<>> THEN <<>>
    ELSE <<-scoring_of(scoring, make_simple_move(b, Head(mvs)))>>
         \o LeafScoresAfter(b, Tail(mvs), scoring)

\* found = <<i, s>>: s is the greatest of the scores and i the index, from
\* zero, of the first move that has it.
IsFirstMaximum(found, scores) ==
    /\ found[1] + 1 \in 1 .. Len(scores)
    /\ scores[found[1] + 1] = found[2]
    /\ \A n \in 1 .. Len(scores) : scores[n] <= found[2]
    /\ \A n \in 1 .. found[1] : scores[n] < found[2]

\* C25: for depth d >= 1 on a position with a legal move, search returns
\* (i, s) where s is the maximum over the legal moves m of the negation of
\* the score search returns at depth d - 1 on the position after m, and i
\* is the smallest index in generation order that attains s; for d = 1 the
\* scores compared are the negations of the scoring function after each
\* move.
C25_SearchIsFirstMaximum ==
    (call.op = "get_best_move" /\ call.arg[1] >= 1 /\ moves # <<>>) =>
        /\ IsFirstMaximum(call.found,
                          ScoresAfter(board, call.arg[1], moves, call.arg[2]))
        /\ (call.arg[1] = 1) =>
               IsFirstMaximum(call.found, LeafScoresAfter(board, moves, call.arg[2]))

\* C25 witness: a search of depth 2 chose a move that is not the first of
\* the list.
C25_Witness ==
    /\ call.op = "get_best_move"
    /\ call.arg[1] = 2
    /\ Len(moves) > 1
    /\ call.found[1] > 0

\* C26: search with depth 0 returns (0, scoring(position)) for every
\* position, also one without legal moves, and leaves the board as it was.
C26_DepthZeroIsTheScore ==
    (call.op = "get_best_move" /\ call.arg[1] = 0) =>
        /\ call.found = <<0, scoring_of(call.arg[2], board)>>
        /\ board = pre

\* C26 witness: a search of depth 0 on a position without legal moves
\* returned a score that is not 0.
C26_Witness ==
    /\ call.op = "get_best_move"
    /\ call.arg[1] = 0
    /\ moves = <<>>
    /\ call.found[2] # 0

\* C27: get_best_move returns None if and only if the position has no
\* legal move; otherwise, for every depth from 0 on, it returns a move of
\* generate_moves() of the position, and try_move accepts that move.
C27_BestMoveIsListed ==
    /\ (call.op = "get_best_move") =>
           /\ (call.value = <<>>) <=> (generate_moves(board) = <<>>)
           /\ (call.value # <<>>) =>
                  \E n \in 1 .. Len(generate_moves(board)) :
                      generate_moves(board)[n] = call.value[1]
    /\ (Tried /\ ply > 0) => call.result = "Ok"

\* C27 witness: the bot played the move get_best_move returned.
C27_Witness ==
    /\ Accepted
    /\ ply > 0
    /\ \E n \in 1 .. Len(moves) : moves[n] = call.move

----------------------------------------------------------------------------
(* lib.rs: the string form of a move (Move::new, idx_from_pos), and a      *)
(* caller that asks for distances to the edge, parses and prints square    *)
(* names, and submits a move written as text.                              *)

\* idx_from_pos: the first character picks a multiple of 8, the second is
\* added as a digit if it is in 0 .. 7; characters after the second are not
\* read.
idx_from_pos(pos) ==
    IF Len(pos) < 1 \/ IndexOf(FileChars, pos[1]) = None THEN None
    ELSE IF Len(pos) < 2 \/ to_digit(pos[2]) \notin 0 .. 7 THEN None
    ELSE IndexOf(FileChars, pos[1]) * 8 + to_digit(pos[2])

\* Move::new once both halves are parsed: an Option<Move>, as a sequence of
\* at most one.
Move_new_of(from, to) ==
    IF from = None \/ to = None THEN <<>> ELSE <<from_idxs(from, to)>>

\* Move::new
Move_new(str) ==
    IF Len(str) # 4 THEN <<>>
    ELSE Move_new_of(idx_from_pos(SubSeq(str, 1, 2)), idx_from_pos(SubSeq(str, 3, 4)))

\* The names a caller may hand to the parser: a letter a..i or A and a
\* digit, and texts that are too short or too long.
NameInputs ==
    {<<f, d>> : f \in {FileChars[i] : i \in 1 .. 8} \cup {"i", "A"},
                d \in {DigitChars[i] : i \in 1 .. 10}}
    \cup {<<>>, <<"a">>, <<"1">>, <<"a", "1", "1">>, <<"1", "a">>}

\* from and to of umove as four characters.
MoveText(umove) == idx_to_square_name(umove.from) \o idx_to_square_name(umove.to)

\* Texts that are no move: too short, too long.
BadTexts ==
    {<<>>, <<"e", "2">>, <<"e", "2", "e">>, <<"e", "2", "e", "4", "q">>,
     <<"e", "2", "-", "e", "4">>}

\* The texts a caller may submit on b: the legal moves written out, and
\* texts that are no move.
TextInputs(mvs) == {MoveText(mvs[i]) : i \in 1 .. Len(mvs)} \cup BadTexts

\* The caller is at Board::new() and has called nothing yet.
Fresh == call = NoCall /\ script = <<>>

\* squares_to_edge(start, dir)
SquaresToEdge ==
    /\ Fresh
    /\ \E start \in Squares, i \in 1 .. Len(DirectionALL) :
           Answered("squares_to_edge", <<start, DirectionALL[i]>>, moves, <<>>,
                    squares_to_edge(start, DirectionALL[i]))

\* idx_from_pos(name)
IdxFromPos ==
    /\ Fresh
    /\ \E name \in NameInputs :
           Answered("idx_from_pos", name, moves, <<>>, idx_from_pos(name))

\* idx_to_square_name(idx)
IdxToSquareName ==
    /\ Fresh
    /\ \E idx \in 0 .. 64 :
           Answered("idx_to_square_name", idx, moves, <<>>, idx_to_square_name(idx))

\* The state after Move::new(text) has returned `parsed` and, if that is a
\* move, board.try_move of it has returned.
Submitted(text, mvs, parsed) ==
    /\ moves' = mvs
    /\ pre' = board
    /\ ply' = ply + 1
    /\ UNCHANGED <<script, fen, debug_assertions>>
    /\ IF parsed = <<>>
       THEN /\ call' = [op |-> "Move::new", move |-> PanicMove, result |-> "None",
                        arg |-> text]
            /\ UNCHANGED <<board, played>>
       ELSE /\ call' = [op |-> "try_move", move |-> parsed[1],
                        result |-> try_move(board, parsed[1]).result, arg |-> text]
            /\ board' = try_move(board, parsed[1]).board
            /\ played' = IF try_move(board, parsed[1]).result = "Ok"
                         THEN played + 1 ELSE played

\* The texts of the moves of mvs = generate_moves(), each submitted as
\* board.try_move(Move::new(text))
SubmitTextOf(mvs) ==
    \E text \in TextInputs(mvs) : Submitted(text, mvs, Move_new(text))

SubmitText ==
    /\ Asking
    /\ SubmitTextOf(generate_moves(board))

NextLib == Opening \/ SquaresToEdge \/ IdxFromPos \/ IdxToSquareName \/ SubmitText

SpecLib == Init /\ [][NextLib]_vars

\* The last call was try_move of a move written as text.
TriedText == call.op = "try_move" /\ "arg" \in DOMAIN call

\* name is a file letter a-h followed by a rank digit 1-8.
IsSquareName(name) ==
    /\ Len(name) = 2
    /\ IndexOf(FileChars, name[1]) # None
    /\ to_digit(name[2]) \in 1 .. 8

\* rank * 8 + file of a square name, a1 = 0.
SquareOfName(name) == (to_digit(name[2]) - 1) * 8 + IndexOf(FileChars, name[1])

\* C28: square-name parsing maps a file letter a-h followed by a rank digit
\* 1-8 to rank * 8 + file with a1 = 0 (a1 to 0, b1 to 1, c3 to 18, h8 to
\* 63), rejects every other name (a file outside a-h, a rank outside 1-8
\* such as the digit 0), and is undone by idx_to_square_name on 0 .. 63.
C28_SquareNamesAreRankTimesEightPlusFile ==
    /\ (call.op = "idx_from_pos") =>
           call.value = IF IsSquareName(call.arg) THEN SquareOfName(call.arg) ELSE None
    /\ (call.op = "idx_to_square_name" /\ call.arg \in Squares) =>
           idx_from_pos(call.value) = call.arg

\* The non-promotion moves of mvs whose text is `text`.
Written(mvs, text) ==
    {i \in 1 .. Len(mvs) : mvs[i].promote = None /\ MoveText(mvs[i]) = text}

\* C29: for every legal non-promotion move of a position, Move::new of the
\* four characters that name its from and to squares returns a move that
\* try_move accepts; on the starting position "e2e4" is accepted and moves
\* the white pawn from index 12 to index 28; a text that is not exactly 4
\* characters long yields None.
C29_WrittenMoveIsAccepted ==
    /\ (call.op \in {"Move::new", "try_move"} /\ "arg" \in DOMAIN call
            /\ Written(moves, call.arg) # {}) =>
           /\ call.op = "try_move"
           /\ call.result = "Ok"
           /\ \E i \in Written(moves, call.arg) :
                  call.move.from = moves[i].from /\ call.move.to = moves[i].to
    /\ (TriedText /\ pre = NewBoard /\ call.arg = <<"e", "2", "e", "4">>) =>
           /\ call.result = "Ok"
           /\ board.squares[12] = EmptyPiece
           /\ board.squares[28] = White + Pawn
    /\ (call.op = "Move::new" /\ Len(call.arg) # 4) => call.result = "None"

\* The steps (rank, file) of one step in a direction.
StepOf(dir) ==
    CASE dir = North -> <<1, 0>>
      [] dir = South -> <<-1, 0>>
      [] dir = West -> <<0, -1>>
      [] dir = East -> <<0, 1>>
      [] dir = NorthWest -> <<1, -1>>
      [] dir = SouthEast -> <<-1, 1>>
      [] dir = NorthEast -> <<1, 1>>
      [] dir = SouthWest -> <<-1, -1>>

\* k steps of dir from s stay on the board.
StaysOnBoard(s, dir, k) ==
    /\ (s \div 8) + k * StepOf(dir)[1] \in 0 .. 7
    /\ (s % 8) + k * StepOf(dir)[2] \in 0 .. 7

\* C30: for every square s and each of the 8 directions d,
\* squares_to_edge(s, d) is the largest n such that n steps of d from s stay
\* on the board, rank and file in 0 .. 7; so s + k * offset(d) for k in
\* 1 .. n is in 0 .. 63 and is the square k steps away, its file differing
\* from that of s by k, 0 or -k as d prescribes.
C30_SquaresToEdgeIsTheDistance ==
    (call.op = "squares_to_edge") =>
        LET s == call.arg[1]
            d == call.arg[2]
            n == call.value
        IN  /\ n \in 0 .. 7
            /\ \A k \in 1 .. n : StaysOnBoard(s, d, k)
            /\ ~StaysOnBoard(s, d, n + 1)
            /\ \A k \in 1 .. n :
                   /\ s + k * offset(d) \in Squares
                   /\ (s + k * offset(d)) % 8 = (s % 8) + k * StepOf(d)[2]
                   /\ (s + k * offset(d)) \div 8 = (s \div 8) + k * StepOf(d)[1]

\* C30 witness: a diagonal from a square whose two cardinal distances
\* differ, with room for a step.
C30_Witness ==
    /\ call.op = "squares_to_edge"
    /\ call.arg = <<11, NorthWest>>
    /\ call.value = 3

----------------------------------------------------------------------------
(* The rays of the sliding pieces, as the listed moves show them.          *)

\* The k-th square from start in direction dir.
RaySquare(start, dir, k) == start + offset(dir) * k

\* The squares of the ray a piece of the side to move may go to: nothing
\* stands before them and no friendly piece stands on them.
RayOpen(b, start, dir) ==
    {RaySquare(start, dir, k) : k \in
        {k \in 1 .. squares_to_edge(start, dir) :
            /\ \A j \in 1 .. k - 1 : b.squares[RaySquare(start, dir, j)] = EmptyPiece
            /\ ~is_color(b.squares[RaySquare(start, dir, k)], b.active_color)}}

\* The destinations the listed moves of the piece on start have on the ray.
GeneratedOnRay(start, dir) ==
    {moves[i].to : i \in
        {i \in 1 .. Len(moves) :
            /\ moves[i].from = start
            /\ \E k \in 1 .. squares_to_edge(start, dir) :
                   moves[i].to = RaySquare(start, dir, k)}}

\* The mover's king is not attacked once the piece on start stands on target.
SafeAfter(b, start, target) ==
    LET after == [b EXCEPT !.squares = [b.squares EXCEPT ![target] = b.squares[start],
                                                        ![start] = EmptyPiece]]
    IN  find_king(after, b.active_color) \notin generate_attacks(after, Not(b.active_color))

\* The sliding pieces of the side to move, as (square, direction) pairs.
ActiveRays(b) ==
    {sd \in Squares \X (0 .. 7) :
        /\ is_color(b.squares[sd[1]], b.active_color)
        /\ is_sliding(b.squares[sd[1]])
        /\ \E i \in 1 .. Len(SlidingDirections(b.squares[sd[1]])) :
               SlidingDirections(b.squares[sd[1]])[i] = sd[2]}

\* No listed move lands on a piece of the side to move.
NoFriendlyDestination ==
    \A i \in 1 .. Len(moves) : ~is_color(board.squares[moves[i].to], board.active_color)

\* C31 as stated: no move of generate_moves() lands on a friendly piece, and
\* on each ray of a bishop, rook or queen the listed destinations are
\* exactly the empty squares up to the first occupied square, plus that
\* square when it holds an enemy piece.
C31_RayDestinationsAreTheOpenSquares ==
    Listed =>
        /\ NoFriendlyDestination
        /\ \A sd \in ActiveRays(board) :
               GeneratedOnRay(sd[1], sd[2]) = RayOpen(board, sd[1], sd[2])

\* C31 amended: the listed destinations of a ray are exactly those open
\* squares whose move leaves the mover's king unattacked.
C31_RayDestinationsAreTheSafeOpenSquares ==
    Listed =>
        /\ NoFriendlyDestination
        /\ \A sd \in ActiveRays(board) :
               GeneratedOnRay(sd[1], sd[2]) =
                   {t \in RayOpen(board, sd[1], sd[2]) : SafeAfter(board, sd[1], t)}

\* C31 witness: a listed ray ends with the capture of an enemy piece that
\* has further squares of the ray behind it.
C31_Witness ==
    /\ Listed
    /\ \E sd \in ActiveRays(board) :
          /\ \E t \in GeneratedOnRay(sd[1], sd[2]) :
                 /\ is_color(board.squares[t], Not(board.active_color))
                 /\ t # RaySquare(sd[1], sd[2], squares_to_edge(sd[1], sd[2]))

----------------------------------------------------------------------------
(* The pawn moves of the list, and the capture en passant.                 *)

\* The listed moves of the pawns of the side to move.
ListedPawnMoves ==
    {i \in 1 .. Len(moves) : PieceType(board.squares[moves[i].from]) = Pawn}

\* The square of the pawn that skipped the en-passant square of b.
PushedSquare(b) == b.en_passant - forward_value(b.active_color) * 8

\* The squares beside the pushed pawn that hold a pawn of the side to move.
PawnsBeside(b) ==
    {s \in {PushedSquare(b) - 1, PushedSquare(b) + 1} \cap Squares :
        /\ s \div 8 = PushedSquare(b) \div 8
        /\ b.squares[s] = to_piece_color(b.active_color) + Pawn}

\* The mover's king is not attacked once the pawn on start has taken en
\* passant.
SafeAfterEnPassant(b, start) ==
    LET after == [b EXCEPT !.squares = [b.squares EXCEPT ![b.en_passant] = b.squares[start],
                                                        ![start] = EmptyPiece,
                                                        ![PushedSquare(b)] = EmptyPiece]]
    IN  find_king(after, b.active_color) \notin generate_attacks(after, Not(b.active_color))

\* Diagonal pawn moves take an enemy piece or land on the en-passant
\* square; forward pawn moves cross and reach empty squares only.
PawnMovesAreWellFormed ==
    \A i \in ListedPawnMoves :
        IF moves[i].to % 8 # moves[i].from % 8
        THEN \/ is_color(board.squares[moves[i].to], Not(board.active_color))
             \/ board.en_passant = moves[i].to
        ELSE /\ board.squares[moves[i].to] = EmptyPiece
             /\ Abs(moves[i].to - moves[i].from) = 16 =>
                    board.squares[(moves[i].to + moves[i].from) \div 2] = EmptyPiece

\* Each pawn beside the pushed pawn has one move onto the skipped square,
\* or none when that move would leave its king attacked.
EnPassantIsListedOnce ==
    board.en_passant # None =>
        \A s \in PawnsBeside(board) :
            Cardinality({i \in 1 .. Len(moves) :
                            moves[i].from = s /\ moves[i].to = board.en_passant}) =
                IF SafeAfterEnPassant(board, s) THEN 1 ELSE 0

\* No piece but a pawn takes the pushed pawn by way of the skipped square.
OnlyPawnsTakeEnPassant ==
    (/\ PlayedListed /\ Accepted
     /\ pre.en_passant = call.move.to
     /\ PieceType(pre.squares[call.move.from]) # Pawn) =>
        board.squares[PushedSquare(pre)] = pre.squares[PushedSquare(pre)]

\* C32: a pawn's diagonal move is generated only onto an enemy piece or the
\* en-passant square and its forward moves only onto empty squares; after a
\* double push each enemy pawn beside the pushed pawn has exactly one
\* diagonal move onto the skipped square (subject to king safety), and no
\* other piece captures the pushed pawn by way of the skipped square.
C32_PawnCapturesAndEnPassant ==
    /\ Listed => (PawnMovesAreWellFormed /\ EnPassantIsListedOnce)
    /\ OnlyPawnsTakeEnPassant

----------------------------------------------------------------------------
(* The side to move.                                                       *)

\* C33: a successful try_move flips active_color and leaves the origin
\* square empty, a failed one leaves active_color as it was, and after n
\* successful moves from the start White is to move iff n is even.
C33_SidesAlternate ==
    /\ Accepted => /\ board.active_color = Not(pre.active_color)
                   /\ board.squares[call.move.from] = EmptyPiece
    /\ (Tried /\ call.result \in {"NotYourPiece", "IllegalMove"}) =>
           board.active_color = pre.active_color
    /\ board.active_color = IF played % 2 = 0 THEN "White" ELSE "Black"

\* C33 witness: a submitted move was refused after an odd number of
\* accepted moves, and Black is still to move.
C33_Witness ==
    /\ Tried
    /\ call.result = "IllegalMove"
    /\ played % 2 = 1
    /\ board.active_color = "Black"

----------------------------------------------------------------------------
(* The kings.                                                              *)

\* The squares that hold player's king.
KingSquares(b, player) == {s \in Squares : b.squares[s] = to_piece_color(player) + King}

\* C34: every position reached from Board::new() by successful try_move
\* calls holds exactly one white king and exactly one black king.
C34_OneKingOfEachColor ==
    \A player \in Player : Cardinality(KingSquares(board, player)) = 1

----------------------------------------------------------------------------
(* The en-passant square of a position.                                    *)

\* The side that is not to move in b.
Waiting(b) == Not(b.active_color)

\* C35: when en_passant is Some(t), the ply before was a double push of a
\* pawn of the side not to move, t is empty, t is on rank index 2 when Black
\* is to move and 5 when White is, and the square one step beyond t in the
\* pusher's forward direction holds a pawn of the side not to move.
C35_EnPassantSquareIsBehindThePushedPawn ==
    board.en_passant # None =>
        /\ Tried
        /\ Accepted =>
              /\ DoublePushed
              /\ pre.squares[call.move.from] = to_piece_color(Waiting(board)) + Pawn
              /\ call.move.to - call.move.from = 16 * forward_value(Waiting(board))
        /\ ~Accepted => board = pre
        /\ board.squares[board.en_passant] = EmptyPiece
        /\ board.en_passant \div 8 = IF board.active_color = "Black" THEN 2 ELSE 5
        /\ board.squares[board.en_passant + forward_value(Waiting(board)) * 8] =
               to_piece_color(Waiting(board)) + Pawn

\* C35 witness: a double push answered a double push, and the square
\* recorded is the one the second pawn skipped.
C35_Witness ==
    /\ Accepted
    /\ pre.en_passant # None
    /\ board.en_passant # None
    /\ board.en_passant # pre.en_passant

----------------------------------------------------------------------------
(* What a revocation leaves alone.                                         *)

\* The rights the move umove of b is to clear: both of the mover when the
\* king moves, the wing's when a rook leaves its corner or is taken on it.
RightsToClear(b, umove) ==
    (IF PieceType(b.squares[umove.from]) = King THEN RightsOf(b.active_color) ELSE {})
    \cup (IF b.squares[umove.from] = to_piece_color(b.active_color) + Rook
          THEN RookHomeRight(b.active_color, umove.from) ELSE {})
    \cup (IF b.squares[umove.to] = to_piece_color(Not(b.active_color)) + Rook
          THEN RookHomeRight(Not(b.active_color), umove.to) ELSE {})

\* C36: a move clears no right but those it is to clear, a castle or king
\* move of one colour leaves both rights of the other colour as they were,
\* and revoking the right of one wing leaves the other three as they were.
C36_RevocationIsPrecise ==
    /\ Accepted =>
          (pre.castle_rights \ board.castle_rights) \subseteq RightsToClear(pre, call.move)
    /\ (Accepted /\ PieceType(pre.squares[call.move.from]) = King) =>
          board.castle_rights \cap RightsOf(Not(Mover)) =
              pre.castle_rights \cap RightsOf(Not(Mover))
    /\ call.op = "revoke" =>
          \A other \in AllRights \ {call.arg[2]} :
              (other \in call.value) = (other \in call.arg[1])

\* C36 witness: a castle took both rights of the mover and left the two of
\* the other colour.
C36_Witness ==
    /\ Accepted
    /\ IsCastle(pre, call.move)
    /\ pre.castle_rights = AllRights
    /\ board.castle_rights = RightsOf(Not(Mover))

----------------------------------------------------------------------------
(* Moves onto the en-passant square by pieces that are not pawns.          *)

\* The occupied squares of b.
Occupied(b) == {s \in Squares : b.squares[s] # EmptyPiece}

\* C37: a successful move of a knight, bishop, rook, queen or king onto the
\* en-passant square removes no piece from the board.
C37_OnlyPawnsRemoveEnPassant ==
    (/\ Accepted
     /\ pre.en_passant = call.move.to
     /\ PieceType(pre.squares[call.move.from]) # Pawn) =>
        Cardinality(Occupied(board)) = Cardinality(Occupied(pre))

----------------------------------------------------------------------------
(* The rights held and the squares of king and rook.                       *)

\* The home corner of the rook of a right.
RookCorner(right) ==
    CASE right = "WhiteKingSide" -> 7
      [] right = "WhiteQueenSide" -> 0
      [] right = "BlackKingSide" -> 63
      [] right = "BlackQueenSide" -> 56

\* C38: generate_moves() never panics on a position reached from
\* Board::new() by successful try_move calls: whenever the side to move
\* holds a right, its king is on its home square and the rook of that wing
\* is on its corner.
C38_CastleAssertionsHold ==
    /\ call.op = "generate_moves" => call.result # "panic"
    /\ \A right \in board.castle_rights \cap RightsOf(board.active_color) :
          /\ board.squares[KingHome(board.active_color)] =
                 to_piece_color(board.active_color) + King
          /\ board.squares[RookCorner(right)] = to_piece_color(board.active_color) + Rook

----------------------------------------------------------------------------
(* A FEN text that is refused.                                             *)

\* C39: when load_fen returns an error, of any kind, every field of the
\* board is as it was before the call.
C39_RefusedFenChangesNothing ==
    (LoadedFen /\ call.result \notin {"Ok", "panic"}) => board = pre

----------------------------------------------------------------------------
(* The halfmove and fullmove counters.                                     *)

\* The counters a FEN text names, as its fifth and sixth fields.
CountersOf(text) == <<split(text, " ")[5], split(text, " ")[6]>>

\* C40: try_move, accepted or refused, leaves halfmove and fullmove as they
\* were: 0 and 1 after Board::new(), and after a load the counters of the
\* loaded text, which get_fen reports.
C40_TryMoveKeepsTheCounters ==
    Tried =>
        /\ board.halfmove = pre.halfmove
        /\ board.fullmove = pre.fullmove
        /\ IF fen = <<>>
           THEN board.halfmove = 0 /\ board.fullmove = 1
           ELSE CountersOf(get_fen(board)) = CountersOf(fen)

\* C40 witness: a move was accepted on a position loaded with counters 5
\* and 9.
C40_Witness ==
    /\ Accepted
    /\ fen # <<>>
    /\ board.halfmove = 5
    /\ board.fullmove = 9
    /\ board.squares # pre.squares

====
